---- MODULE Spec2Model ----
(***************************************************************************)
(* A model of the content-importing web components of                     *)
(* DataDink/web-components:                                                *)
(*   - ImportComponent (src/import-component.js)                           *)
(*   - ShadowImport    (src/shadow-import.js)                              *)
(*   - InlineImport    (src/nav-component.js)                              *)
(*   - DataTemplate    (src/toggle-button.js)                              *)
(*   - NavComponent    (src/nav-component.js)                              *)
(*   - SrcNav          (src/toggle-button.js)                              *)
(*   - ToggleButton    (src/toggle-button.js)                              *)
(* Each component is a state machine over the part of the DOM it touches;  *)
(* every await of the code is a point where the other callbacks of the    *)
(* page may run.                                                           *)
(***************************************************************************)
EXTENDS Integers, Sequences, FiniteSets, TLC

\* ----------------------------------------------------------------- bounds
\* import() calls that get as far as fetching, per behaviour
MaxImports == 2
\* <script> elements at the head of a fetched document
MaxScripts == 2
\* attributeChangedCallback calls of a component, per behaviour
MaxChanges == 2
\* callbacks of one ShadowImport that reach an await, per behaviour
MaxShadowTasks == 3
\* callbacks of one InlineImport that reach an await, per behaviour
MaxInlineTasks == 3

\* ------------------------------------------------------------------ nodes
\* A node is <<f, t, i>>: f the fragment it was created in (0: the page),
\* t the import whose script created it (0: parsed content), i its index.
Comp == <<0, 0, 0>>
SibA == <<0, 0, 1>>
ContentNode(f, i) == <<f, 0, i>>
AppendedNode(f, t, k) == <<f, t, k>>
FragOf(n) == n[1]

Range(seq) == {seq[i] : i \in 1..Len(seq)}
Without(seq, S) == SelectSeq(seq, LAMBDA x : x \notin S)
InsertAt(seq, p, items) == SubSeq(seq, 1, p - 1) \o items \o SubSeq(seq, p, Len(seq))
IndexOf(seq, x) == CHOOSE i \in 1..Len(seq) : seq[i] = x

\* --------------------------------------------------------------- the page
VARIABLES
  attrs,      \* ImportComponent: the attributes from, target, scripts
  context,    \* ImportComponent.#context: 0 (null) or a fragment
  frag,       \* the fragments: child nodes, the NODES list, where it came from
  dom,        \* the tree around the component
  timer,      \* pending callbacks of #deferAttributeChange
  tasks,      \* the calls of ImportComponent.import, each at its await
  log,        \* the events dispatched and the scripts invoked, in order
  changes,    \* attributeChangedCallback calls: all, those with the old value,
              \* those since the timer last ran and those it last served
  si,         \* ShadowImport: attributes, #attached, #script, shadow content
  siTasks,    \* the calls of ShadowImport's callbacks, each at its await
  ii,         \* InlineImport: attributes, #attached, #content, its tree
  iiTasks,    \* the calls of InlineImport's callbacks, each at its await
  dt,         \* DataTemplate: target, #content, its clones, its tree, timer
  dtTasks,    \* the calls of DataTemplate.render, each at its await
  nav,        \* NavComponent: the URL hash, the hashchange events waiting,
              \* and each component's anchors, targets and hash-name
  srcnav,     \* SrcNav: the URL hash, the hashchange events waiting, and
              \* each component's anchors, target element and hash-name
  toggle      \* ToggleButton: its events attribute, the target's toggled
              \* attribute and the revert handlers registered on the target

vars == <<attrs, context, frag, dom, timer, tasks, log, changes, si, siTasks,
          ii, iiTasks, dt, dtTasks, nav, srcnav, toggle>>

\* The children of the component's parent, of the component, of its shadow
\* root (open: whether attachShadow has run) and of the element '#q' matches.
InitDom == [parent |-> <<SibA>>, comp |-> <<>>, open |-> FALSE,
            shadow |-> <<>>, q |-> <<>>]
Connected(d) == Comp \in Range(d.parent)
DomNodes(d) == (Range(d.parent) \cup Range(d.comp) \cup Range(d.shadow)
                \cup Range(d.q)) \ {Comp, SibA}
\* The tree without the component's own node: what a clear is to restore.
Surrounding(d) == [parent |-> Without(d.parent, {Comp}), comp |-> d.comp,
                   shadow |-> d.shadow, q |-> d.q]

\* A fragment: its child nodes, its NODES list and whether it has one, the
\* status of the response it was parsed from, its <script> elements.
NoFrag == [kids |-> <<>>, nodes |-> <<>>, set |-> FALSE, status |-> "none",
           scripts |-> 0]
\* The calls of import that are suspended at an await.
InFlight(tk) ==
  {t \in 1..MaxImports : tk[t].pc \in {"content", "load", "run"}}
Overlapped(task) == task.stale \/ task.joined

\* The state the synchronous code of a handler reads and writes.
Here == [context |-> context, frag |-> frag, dom |-> dom, tasks |-> tasks,
         log |-> log]
Commit(s) ==
  /\ context' = s.context
  /\ frag' = s.frag
  /\ dom' = s.dom
  /\ tasks' = s.tasks
  /\ log' = s.log

\* An event ev of import t (0: of a clear) carrying fragment f; cap: the node
\* list of f is recorded; in: nodes of the list are in the tree; k: the
\* script, for the call of a script.
Event(ev, f, t, cap, in) ==
  [ev |-> ev, f |-> f, t |-> t, cap |-> cap, in |-> in, k |-> 0]
ScriptEvent(f, t, k) == [Event("script", f, t, FALSE, FALSE) EXCEPT !.k = k]

\* ------------------------------------------------- ImportComponent.clear
\* nodes.shift() then context.appendChild(node): every recorded node leaves
\* the place it is in and becomes the last child of the fragment.
ForgetNodes(s, c) == [s EXCEPT !.frag[c].nodes = <<>>]

ReturnNodes(s, c) ==
  LET nodes == s.frag[c].nodes
      gone == Range(nodes)
  IN  [s EXCEPT
        !.dom = [parent |-> Without(s.dom.parent, gone),
                 comp |-> Without(s.dom.comp, gone),
                 open |-> s.dom.open,
                 shadow |-> Without(s.dom.shadow, gone),
                 q |-> Without(s.dom.q, gone)],
        !.frag = [f \in 1..MaxImports |->
                    IF f = c
                      THEN [s.frag[f] EXCEPT !.kids = Without(@, gone) \o nodes,
                                             !.nodes = <<>>]
                      ELSE [s.frag[f] EXCEPT !.kids = Without(@, gone)]]]

\* Every import that is suspended while a clear runs is superseded by it.
Superseded(s) ==
  [s EXCEPT !.tasks = [t \in 1..MaxImports |->
     IF t \in InFlight(s.tasks) THEN [s.tasks[t] EXCEPT !.stale = TRUE]
                                ELSE s.tasks[t]]]

\* A clear that dispatches its two events whether a context is held or not.
ClearUnguarded(s) ==
  [Superseded(s) EXCEPT
     !.log = @ \o <<Event("remove", s.context, 0, FALSE, FALSE),
                    Event("detach", s.context, 0, FALSE, FALSE)>>,
     !.context = 0]

\* ImportComponent.clear, lines 60-67.
Clear(s) ==
  IF s.context = 0 THEN Superseded(s)
  ELSE LET c == s.context
           r == ReturnNodes(Superseded(s), c)
       IN  [r EXCEPT
             !.log = @ \o <<Event("remove", c, 0, r.frag[c].set, FALSE),
                            Event("detach", c, 0, r.frag[c].set, FALSE)>>,
             !.context = 0]

\* ---------------------------------------- ImportComponent.getTargetContext
GetTargetContextAnyMatch(d) ==
  CASE attrs.target = "insert" -> "comp"
    [] attrs.target = "before" -> "comp"
    [] attrs.target = "after" ->
         IF Connected(d) /\ IndexOf(d.parent, Comp) < Len(d.parent)
           THEN "nextSibling" ELSE "null"
    [] attrs.target = "shadow" -> "shadow"
    [] OTHER -> IF Connected(d) THEN "q" ELSE "null"

GetTargetContext(d) ==
  CASE attrs.target = "insert" -> "comp"
    [] attrs.target = "before" -> "comp"
    [] attrs.target = "after" ->
         IF Connected(d) /\ IndexOf(d.parent, Comp) < Len(d.parent)
           THEN "nextSibling" ELSE "null"
    [] attrs.target = "shadow" -> "shadow"
    [] OTHER -> IF attrs.target = "#q" /\ Connected(d) THEN "q" ELSE "null"

\* ------------------------------------- ImportComponent.import, lines 131-151
CaptureAllButLast(kids) == SubSeq(kids, 1, Len(kids) - 1)

CaptureNodes(kids) == kids

Capture(s) ==
  [s EXCEPT !.frag[s.context].nodes = CaptureNodes(s.frag[s.context].kids),
            !.frag[s.context].set = TRUE]

DispatchInsert(s, t) ==
  LET c == s.context
  IN  [s EXCEPT !.log = Append(@, Event("insert", c, t, s.frag[c].set,
                   Range(s.frag[c].nodes) \cap DomNodes(s.dom) # {}))]

\* The switch on component.target: appendChild and insertBefore move every
\* child of the fragment, in order, and leave the fragment empty. Without a
\* target, or without a parent, nothing moves.
InsertionIntoComponent(s, t) ==
  LET c == s.context
      kids == s.frag[c].kids
  IN  [s EXCEPT !.frag[c].kids = <<>>,
                !.tasks[t].placed = attrs.target,
                !.tasks[t].put = kids,
                !.dom.comp = @ \o kids]

Insertion(s, t) ==
  LET c == s.context
      kids == s.frag[c].kids
      d == s.dom
      target == GetTargetContext(d)
      at == IndexOf(d.parent, Comp)
      moved == [s EXCEPT !.frag[c].kids = <<>>,
                         !.tasks[t].placed = attrs.target,
                         !.tasks[t].put = kids]
      unmoved == [s EXCEPT !.tasks[t].placed = "none"]
  IN  CASE attrs.target = "shadow" ->
             [moved EXCEPT !.dom.open = TRUE, !.dom.shadow = @ \o kids]
        [] attrs.target = "insert" ->
             [moved EXCEPT !.dom.comp = @ \o kids]
        [] attrs.target = "before" ->
             IF Connected(d)
               THEN [moved EXCEPT !.dom.parent = InsertAt(@, at, kids)]
               ELSE unmoved
        [] attrs.target = "after" ->
             IF Connected(d)
               THEN [moved EXCEPT !.dom.parent = InsertAt(@, at + 1, kids)]
               ELSE unmoved
        [] OTHER ->
             IF target = "q" THEN [moved EXCEPT !.dom.q = @ \o kids]
                             ELSE unmoved

DispatchAttach(s, t) ==
  LET c == s.context
  IN  [s EXCEPT !.log = Append(@, Event("attach", c, t, s.frag[c].set,
                   Range(s.frag[c].nodes) \subseteq DomNodes(s.dom)))]

PlaceInsertionFirst(s, t) ==
  DispatchAttach(DispatchInsert(Insertion(Capture(s), t), t), t)

Place(s, t) == DispatchAttach(Insertion(DispatchInsert(Capture(s), t), t), t)

\* Line 131 reads component.#context again: when a clear has emptied it the
\* assignment throws and the import rejects.
Finish(s, t) ==
  IF s.context = 0
    THEN [s EXCEPT !.tasks[t].pc = "failed"]
    ELSE [Place(s, t) EXCEPT !.tasks[t].pc = "done"]

\* ------------------------------------ ImportComponent.import, lines 125-130
\* executeScript up to its first await: nothing to do without a context,
\* else the script's source is loaded.
StartScript(s, t, k) ==
  IF k > s.frag[t].scripts THEN Finish(s, t)
  ELSE IF s.context = 0
    THEN [s EXCEPT !.tasks[t].pc = "run", !.tasks[t].k = k,
                   !.tasks[t].ran = Append(@, "skipped")]
    ELSE [s EXCEPT !.tasks[t].pc = "load", !.tasks[t].k = k]

\* Line 128: what executeScript throws is caught and logged, and the loop
\* goes on with the next script.
Uncaught(s, t) == [s EXCEPT !.tasks[t].pc = "failed"]

Caught(s, t) == StartScript(s, t, s.tasks[t].k + 1)

\* Line 190 awaits what the script returned before executeScript returns.
CallNotAwaited(s, t) == StartScript(s, t, s.tasks[t].k + 1)

CallAwaited(s, t) == [s EXCEPT !.tasks[t].pc = "run"]

\* ------------------------------------ ImportComponent.import, lines 121-124
FreeTask(tk) ==
  LET free == {t \in 1..MaxImports : tk[t].pc = "free"}
  IN  IF free = {} THEN 0 ELSE CHOOSE t \in free : \A u \in free : t <= u


\* getFromContent up to its await: a connected component finds the template
\* in its root, anything else is fetched.
SourceKind(d) == IF attrs.from = "#tpl" /\ Connected(d) THEN "template" ELSE "fetch"

ImportWithoutClear(s) ==
  LET t == FreeTask(s.tasks)
  IN  IF attrs.from = "" THEN s
      ELSE [s EXCEPT !.tasks[t] =
              [pc |-> "content", from |-> attrs.from,
               src |-> SourceKind(s.dom), k |-> 0, stale |-> FALSE,
               joined |-> InFlight(s.tasks) # {}, placed |-> "",
               put |-> <<>>, snap |-> Surrounding(s.dom), ran |-> <<>>]]

\* An import that goes on to getFromContent whatever the from.
ImportAnyFrom(s) ==
  LET c == Clear(s)
      t == FreeTask(c.tasks)
  IN  [c EXCEPT !.tasks[t] =
         [pc |-> "content", from |-> attrs.from,
          src |-> SourceKind(c.dom), k |-> 0, stale |-> FALSE,
          joined |-> InFlight(c.tasks) # {}, placed |-> "",
          put |-> <<>>, snap |-> Surrounding(c.dom), ran |-> <<>>]]

\* Lines 121-124, up to the await: clear, then nothing more without a from,
\* else getFromContent begins.
Import(s) ==
  LET c == Clear(s)
      t == FreeTask(c.tasks)
  IN  IF attrs.from = "" THEN c
      ELSE [c EXCEPT !.tasks[t] =
              [pc |-> "content", from |-> attrs.from,
               src |-> SourceKind(c.dom), k |-> 0, stale |-> FALSE,
               joined |-> InFlight(c.tasks) # {}, placed |-> "",
               put |-> <<>>, snap |-> Surrounding(c.dom), ran |-> <<>>]]

\* The <template> of the page holds one script fewer than the document that
\* is fetched.
DocScripts(status) == IF status = "template" THEN MaxScripts - 1 ELSE MaxScripts

\* Line 124 resumes: the fragment getFromContent returns (the scripts, then
\* one element) becomes the context whatever happened to the component
\* meanwhile; then the scripts, when enabled, else placement.
Resolve(s, t, status) ==
  LET got == [s EXCEPT !.context = t,
                       !.frag[t] =
                          [kids |-> [i \in 1..(DocScripts(status) + 1) |->
                                       ContentNode(t, i)],
                           nodes |-> <<>>, set |-> FALSE, status |-> status,
                           scripts |-> DocScripts(status)]]
  IN  IF attrs.scripts THEN StartScript(got, t, 1) ELSE Finish(got, t)

\* ---------------------------------------------------------------- actions
\* An ImportComponent as constructed, with the attributes of its markup.
\* A call of import: where it is suspended; the from it read and how the
\* content is got; the script it is at; whether a clear of the component ran
\* while it was suspended (stale) and whether another import was suspended
\* when it began (joined); the placement it made, the nodes it put into the
\* tree, and the tree as its leading clear left it; how each script it got
\* to went ("skipped", "threw", "called" and not yet settled, "resolved",
\* "rejected").
ImportCreated(markup) ==
  /\ attrs \in markup
  /\ context = 0
  /\ frag = [f \in 1..MaxImports |-> NoFrag]
  /\ dom = InitDom
  /\ timer = 0
  /\ tasks = [t \in 1..MaxImports |->
                [pc |-> "free", from |-> "", src |-> "", k |-> 0,
                 stale |-> FALSE, joined |-> FALSE, placed |-> "",
                 put |-> <<>>, snap |-> Surrounding(InitDom), ran |-> <<>>]]
  /\ log = <<>>
  /\ changes = [all |-> 0, same |-> 0, tick |-> 0, served |-> 0]

\* The page inserts the component: connectedCallback.
Connect(p) ==
  /\ ~Connected(dom)
  /\ FreeTask(tasks) # 0
  /\ Commit(Import([Here EXCEPT !.dom.parent = InsertAt(@, p, <<Comp>>)]))
  /\ UNCHANGED <<attrs, timer, changes, si, siTasks, ii, iiTasks, dt,
                 dtTasks, nav, srcnav, toggle>>

\* The page removes the component: disconnectedCallback.
Disconnect ==
  /\ Connected(dom)
  /\ Commit(Clear([Here EXCEPT !.dom.parent = Without(@, {Comp})]))
  /\ UNCHANGED <<attrs, timer, changes, si, siTasks, ii, iiTasks, dt,
                 dtTasks, nav, srcnav, toggle>>

\* clearTimeout, then setTimeout: one callback is pending whatever was.
ScheduleAnother(pending) == pending + 1

Schedule(pending) == 1

\* A callback that sets the deferred callback anew whatever the two values.
DeferAlways(pending, old, new) == Schedule(pending)

\* Lines 43-51: nothing when the value is the one it was, else the deferred
\* callback is set anew.
Defer(pending, old, new) == IF old = new THEN pending ELSE Schedule(pending)

\* attributeChangedCallback(name, attrs[name], value), which the page calls
\* whenever it sets the attribute, to the same value or another.
AttributeChanged(name, value) ==
  /\ changes.all < MaxChanges
  /\ attrs' = [attrs EXCEPT ![name] = value]
  /\ timer' = Defer(timer, attrs[name], value)
  /\ changes' = IF attrs[name] = value
                  THEN [changes EXCEPT !.all = @ + 1, !.same = @ + 1]
                  ELSE [changes EXCEPT !.all = @ + 1, !.tick = @ + 1]
  /\ UNCHANGED <<context, frag, dom, tasks, log, si, siTasks, ii, iiTasks,
                 dt, dtTasks, nav, srcnav, toggle>>

\* A callback that clears and imports whether content is held or not.
DeferredCallbackUnguarded(s) == Import(Clear(s))

\* Lines 47-49, the body of the deferred callback.
DeferredCallback(s) == IF s.context = 0 THEN s ELSE Import(Clear(s))

\* The callback of setTimeout(..., 0), lines 46-50.
TimerFires ==
  /\ timer > 0
  /\ FreeTask(tasks) # 0
  /\ timer' = timer - 1
  /\ changes' = [changes EXCEPT !.tick = 0, !.served = changes.tick]
  /\ Commit(DeferredCallback(Here))
  /\ UNCHANGED <<attrs, si, siTasks, ii, iiTasks, dt, dtTasks, nav, srcnav,
                 toggle>>

TemplateResolved(t) ==
  /\ tasks[t].pc = "content" /\ tasks[t].src = "template"
  /\ Commit(Resolve(Here, t, "template"))
  /\ UNCHANGED <<attrs, timer, changes, si, siTasks, ii, iiTasks, dt,
                 dtTasks, nav, srcnav, toggle>>

\* fetch resolves with any status; line 106 takes the body whatever it is.
FetchResolved(t, status) ==
  /\ tasks[t].pc = "content" /\ tasks[t].src = "fetch"
  /\ Commit(Resolve(Here, t, status))
  /\ UNCHANGED <<attrs, timer, changes, si, siTasks, ii, iiTasks, dt,
                 dtTasks, nav, srcnav, toggle>>

\* fetch rejects: import rejects at line 124, before the assignment.
FetchRejected(t) ==
  /\ tasks[t].pc = "content" /\ tasks[t].src = "fetch"
  /\ tasks' = [tasks EXCEPT ![t].pc = "failed"]
  /\ UNCHANGED <<attrs, context, frag, dom, timer, log, changes, si, siTasks,
                 ii, iiTasks, dt, dtTasks, nav, srcnav, toggle>>

\* The script's source fails to load or is no function: lines 185-189 throw.
ScriptFailed(t) ==
  /\ tasks[t].pc = "load"
  /\ Commit(Caught([Here EXCEPT !.tasks[t].ran = Append(@, "threw")], t))
  /\ UNCHANGED <<attrs, timer, changes, si, siTasks, ii, iiTasks, dt,
                 dtTasks, nav, srcnav, toggle>>

\* Line 190: the script runs with the context as it is now; it may add a
\* node to the fragment it was given.
ScriptCalled(t, adds) ==
  /\ tasks[t].pc = "load"
  /\ adds => context # 0
  /\ LET c == context
         k == tasks[t].k
         called == [Here EXCEPT
                     !.log = Append(@, ScriptEvent(c, t, k)),
                     !.tasks[t].ran = Append(@, "called")]
     IN  Commit(CallAwaited(
                  IF adds
                    THEN [called EXCEPT
                           !.frag[c].kids = Append(@, AppendedNode(c, t, k))]
                    ELSE called, t))
  /\ UNCHANGED <<attrs, timer, changes, si, siTasks, ii, iiTasks, dt,
                 dtTasks, nav, srcnav, toggle>>

\* The script's promise settles, or the early return of line 184 does; a
\* rejection is caught at line 128.
ScriptSettled(t, ok) ==
  /\ tasks[t].pc = "run"
  /\ ~ok => tasks[t].ran[tasks[t].k] = "called"
  /\ LET k == tasks[t].k
         was == tasks[t].ran[k]
         now == IF was # "called" THEN was
                ELSE IF ok THEN "resolved" ELSE "rejected"
         settled == [Here EXCEPT !.tasks[t].ran[k] = now]
     IN  Commit(IF ok THEN StartScript(settled, t, k + 1)
                      ELSE Caught(settled, t))
  /\ UNCHANGED <<attrs, timer, changes, si, siTasks, ii, iiTasks, dt,
                 dtTasks, nav, srcnav, toggle>>

\* ------------------------------------------------------------ ShadowImport
\* A src is a file stem, an extension and a query.
ShadowSrcs == <<[stem |-> "b", ext |-> "", query |-> ""],
                [stem |-> "a", ext |-> ".html", query |-> "?v=1"]>>
Url(stem, ext) == [stem |-> stem, ext |-> ext]
\* component.src.split('?')[0].split('#')[0]
PathOf(src) == Url(src.stem, src.ext)
\* The fetches of lines 55-57, in the order of the ?? chain; file is
\* path.replace(/\.[^\\\/]+$/, '').
Attempts(path) ==
  LET file == path.stem
  IN  <<path, Url(file, ".html"), Url(file, ".htm")>>

NoText == [url |-> Url("", ""), status |-> "null"]
NoContent == [text |-> NoText, css |-> FALSE, escaped |-> FALSE, by |-> 0]
ShadowFree(tk) ==
  LET free == {t \in 1..MaxShadowTasks : tk[t].pc = "free"}
  IN  IF free = {} THEN 0 ELSE CHOOSE t \in free : \A u \in free : t <= u

\* A ShadowImport as constructed: an empty open shadow root, no script.
ShadowCreated(srcs, flags) ==
  /\ si \in [src : srcs, css : flags, js : flags, text : flags,
             connected : {FALSE}, attached : {FALSE}, script : {0},
             content : {NoContent}]
  /\ siTasks = [t \in 1..MaxShadowTasks |->
                  [kind |-> "free", pc |-> "free", path |-> Url("", ""),
                   tried |-> <<>>, error |-> ""]]

\* r => r.ok ? (await r.text()) : null
OkText(url, outcome) ==
  IF outcome = "ok" THEN [url |-> url, status |-> outcome] ELSE NoText

\* ShadowImport.attach up to its first await, lines 51-55.
ShadowAttach(s, t) ==
  [s EXCEPT !.si.attached = TRUE,
            !.tasks[t].pc = "fetch",
            !.tasks[t].path = PathOf(s.si.src),
            !.tasks[t].tried = <<>>]

\* ShadowImport.detach up to its await, lines 79-82, or to its end.
ShadowDetach(s, t, then) ==
  IF s.si.script # 0
    THEN [s EXCEPT !.si.attached = FALSE, !.tasks[t].pc = "detaching"]
    ELSE [s EXCEPT !.si.attached = FALSE, !.si.content = NoContent,
                   !.tasks[t].pc = then]

ShadowHere == [si |-> si, tasks |-> siTasks]
ShadowCommit(s) == si' = s.si /\ siTasks' = s.tasks

\* connectedCallback
ShadowConnect ==
  /\ ~si.connected
  /\ ShadowFree(siTasks) # 0
  /\ LET t == ShadowFree(siTasks)
     IN  ShadowCommit(ShadowAttach(
           [ShadowHere EXCEPT !.si.connected = TRUE,
                              !.tasks[t].kind = "attach"], t))
  /\ UNCHANGED <<attrs, context, frag, dom, timer, tasks, log, changes, ii,
                 iiTasks, dt, dtTasks, nav, srcnav, toggle>>

\* disconnectedCallback
ShadowDisconnect ==
  /\ si.connected
  /\ ShadowFree(siTasks) # 0
  /\ LET t == ShadowFree(siTasks)
     IN  ShadowCommit(ShadowDetach(
           [ShadowHere EXCEPT !.si.connected = FALSE,
                              !.tasks[t].kind = "detach"], t, "done"))
  /\ UNCHANGED <<attrs, context, frag, dom, timer, tasks, log, changes, ii,
                 iiTasks, dt, dtTasks, nav, srcnav, toggle>>

\* attributeChangedCallback('src', ...): nothing unless attached, else detach
\* and, after its await, attach.
ShadowSrcChanged(src) ==
  /\ si.attached => ShadowFree(siTasks) # 0
  /\ LET t == ShadowFree(siTasks)
         set == [ShadowHere EXCEPT !.si.src = src]
     IN  IF ~si.attached THEN ShadowCommit(set)
         ELSE ShadowCommit(ShadowDetach(
                [set EXCEPT !.tasks[t].kind = "change"], t, "detached"))
  /\ UNCHANGED <<attrs, context, frag, dom, timer, tasks, log, changes, ii,
                 iiTasks, dt, dtTasks, nav, srcnav, toggle>>

\* script.detach settles, lines 82-85; a rejection ends detach there.
ShadowDetachSettled(t, ok) ==
  /\ siTasks[t].pc = "detaching"
  /\ IF ok
       THEN /\ si' = [si EXCEPT !.script = 0, !.content = NoContent]
            /\ siTasks' = [siTasks EXCEPT ![t].pc =
                 IF siTasks[t].kind = "change" THEN "detached" ELSE "done"]
       ELSE /\ siTasks' = [siTasks EXCEPT ![t].pc = "failed",
                                          ![t].error = "script"]
            /\ UNCHANGED si
  /\ UNCHANGED <<attrs, context, frag, dom, timer, tasks, log, changes, ii,
                 iiTasks, dt, dtTasks, nav, srcnav, toggle>>

\* Line 94: the await of detach resumes and attach begins.
ShadowChangeResumes(t) ==
  /\ siTasks[t].pc = "detached"
  /\ ShadowCommit(ShadowAttach(ShadowHere, t))
  /\ UNCHANGED <<attrs, context, frag, dom, timer, tasks, log, changes, ii,
                 iiTasks, dt, dtTasks, nav, srcnav, toggle>>

\* One fetch of lines 55-57 settles. A rejection leaves the chain at once;
\* a null goes on to the next fetch, and past the last throws at line 58.
\* With a text, lines 59-63: the markup replaces the shadow content.
ShadowFetchSettled(t, outcome) ==
  /\ siTasks[t].pc = "fetch"
  /\ LET i == Len(siTasks[t].tried) + 1
         url == Attempts(siTasks[t].path)[i]
         text == OkText(url, outcome)
         tried == [ShadowHere EXCEPT !.tasks[t].tried =
                     Append(@, [url |-> url, outcome |-> outcome])]
     IN  ShadowCommit(
           IF outcome = "reject"
             THEN [tried EXCEPT !.tasks[t].pc = "failed",
                                !.tasks[t].error = "network"]
           ELSE IF text # NoText
             THEN [tried EXCEPT
                     !.si.content = [text |-> text, css |-> si.css,
                                     escaped |-> si.text, by |-> t],
                     !.tasks[t].pc = IF si.js THEN "module" ELSE "done"]
           ELSE IF i < Len(Attempts(siTasks[t].path)) THEN tried
           ELSE [tried EXCEPT !.tasks[t].pc = "failed",
                              !.tasks[t].error = "load"])
  /\ UNCHANGED <<attrs, context, frag, dom, timer, tasks, log, changes, ii,
                 iiTasks, dt, dtTasks, nav, srcnav, toggle>>

\* Lines 65-69: the module loads; its default export is instantiated when
\* it is a ContentScript.
ShadowModuleSettled(t, result) ==
  /\ siTasks[t].pc = "module"
  /\ IF result = "script"
       THEN /\ si' = [si EXCEPT !.script = t]
            /\ siTasks' = [siTasks EXCEPT ![t].pc = "script"]
       ELSE /\ siTasks' = [siTasks EXCEPT ![t].pc = "failed",
                                          ![t].error = result]
            /\ UNCHANGED si
  /\ UNCHANGED <<attrs, context, frag, dom, timer, tasks, log, changes, ii,
                 iiTasks, dt, dtTasks, nav, srcnav, toggle>>

\* Line 69: script.attach settles.
ShadowScriptSettled(t, ok) ==
  /\ siTasks[t].pc = "script"
  /\ siTasks' = [siTasks EXCEPT ![t].pc = IF ok THEN "done" ELSE "failed",
                                ![t].error = IF ok THEN "" ELSE "script"]
  /\ UNCHANGED <<si, attrs, context, frag, dom, timer, tasks, log, changes,
                 ii, iiTasks, dt, dtTasks, nav, srcnav, toggle>>

\* ------------------------------------------------------------ InlineImport
\* A node of an InlineImport's tree is <<t, i>>: node i of the fragment the
\* attach of task t parsed; <<0, 0>> is the component, <<0, 1>> a sibling.
InlineComp == <<0, 0>>
InlineSib == <<0, 1>>
MaxInlineNodes == 2
InlineFree(tk) ==
  LET free == {t \in 1..MaxInlineTasks : tk[t].pc = "free"}
  IN  IF free = {} THEN 0 ELSE CHOOSE t \in free : \A u \in free : t <= u

\* An InlineImport as constructed; place: import-before, import-after or
\* neither.
InlineCreated(places) ==
  /\ ii \in [place : places, attached : {FALSE}, content : {<<>>},
             parent : {<<InlineSib>>}, comp : {<<>>}]
  /\ iiTasks = [t \in 1..MaxInlineTasks |->
                  [kind |-> "free", pc |-> "free", status |-> ""]]

InlineConnected(s) == InlineComp \in Range(s.parent)

\* InlineImport.attach up to its await, lines 260-263.
InlineAttach(s, tk, t) == <<[s EXCEPT !.attached = TRUE],
                            [tk EXCEPT ![t].pc = "fetch"]>>

\* InlineImport.detach, lines 279-281.
InlineDetach(s) ==
  [s EXCEPT !.attached = FALSE, !.content = <<>>,
            !.parent = Without(@, Range(s.content)),
            !.comp = Without(@, Range(s.content))]

\* Lines 265-269: before() and after() need a parent, append() does not.
InlinePlace(s, t) ==
  LET nodes == [i \in 1..MaxInlineNodes |-> <<t, i>>]
      at == IndexOf(s.parent, InlineComp)
      owned == [s EXCEPT !.content = nodes]
  IN  CASE s.place = "before" ->
             IF InlineConnected(s)
               THEN [owned EXCEPT !.parent = InsertAt(@, at, nodes)]
               ELSE owned
        [] s.place = "after" ->
             IF InlineConnected(s)
               THEN [owned EXCEPT !.parent = InsertAt(@, at + 1, nodes)]
               ELSE owned
        [] OTHER -> [owned EXCEPT !.comp = @ \o nodes]

\* connectedCallback
InlineConnect(p) ==
  /\ ~InlineConnected(ii)
  /\ InlineFree(iiTasks) # 0
  /\ LET t == InlineFree(iiTasks)
         r == InlineAttach([ii EXCEPT !.parent = InsertAt(@, p, <<InlineComp>>)],
                           [iiTasks EXCEPT ![t].kind = "attach"], t)
     IN  ii' = r[1] /\ iiTasks' = r[2]
  /\ UNCHANGED <<attrs, context, frag, dom, timer, tasks, log, changes, si,
                 siTasks, dt, dtTasks, nav, srcnav, toggle>>

\* disconnectedCallback
InlineDisconnect ==
  /\ InlineConnected(ii)
  /\ ii' = InlineDetach([ii EXCEPT !.parent = Without(@, {InlineComp})])
  /\ UNCHANGED <<iiTasks, attrs, context, frag, dom, timer, tasks, log,
                 changes, si, siTasks, dt, dtTasks, nav, srcnav, toggle>>

\* attributeChangedCallback('src', ...) of an attached component: detach,
\* and after its await attach.
InlineSrcChanged ==
  /\ ii.attached
  /\ InlineFree(iiTasks) # 0
  /\ ii' = InlineDetach(ii)
  /\ iiTasks' = [iiTasks EXCEPT ![InlineFree(iiTasks)] =
                   [kind |-> "change", pc |-> "detached", status |-> ""]]
  /\ UNCHANGED <<attrs, context, frag, dom, timer, tasks, log, changes, si,
                 siTasks, dt, dtTasks, nav, srcnav, toggle>>

\* Line 290: the await of detach resumes and attach begins.
InlineChangeResumes(t) ==
  /\ iiTasks[t].pc = "detached"
  /\ LET r == InlineAttach(ii, iiTasks, t)
     IN  ii' = r[1] /\ iiTasks' = r[2]
  /\ UNCHANGED <<attrs, context, frag, dom, timer, tasks, log, changes, si,
                 siTasks, dt, dtTasks, nav, srcnav, toggle>>

\* Line 263 settles: a rejection and a null (line 264) end attach, a text
\* is parsed and placed.
InlineFetchSettled(t, outcome) ==
  /\ iiTasks[t].pc = "fetch"
  /\ LET text == OkText(Url("c", ".html"), outcome)
     IN  IF text = NoText
           THEN /\ iiTasks' = [iiTasks EXCEPT ![t].pc = "failed",
                                              ![t].status = outcome]
                /\ UNCHANGED ii
           ELSE /\ iiTasks' = [iiTasks EXCEPT ![t].pc = "done",
                                              ![t].status = text.status]
                /\ ii' = InlinePlace(ii, t)
  /\ UNCHANGED <<attrs, context, frag, dom, timer, tasks, log, changes, si,
                 siTasks, dt, dtTasks, nav, srcnav, toggle>>

\* ------------------------------------------------------------ DataTemplate
\* src/toggle-button.js, lines 61-199.  The component, the node after it,
\* its shadow root, the element '#q' matches, and no node at all.
DataComp == <<0, 0>>
DataSib == <<0, 1>>
DataShadow == <<0, 2>>
DataQ == <<0, 3>>
DataNull == <<0, 4>>
\* calls of DataTemplate.render, per behaviour
MaxRenders == 2
\* items of the array given to a render
MaxItems == 2
\* connectedCallback calls of a data-template, per behaviour
MaxConnects == 2

\* A call of render: where it is; the items left; the target of line 85; the
\* clone whose binder it awaits; what it was given; and whether no other
\* call was suspended at any moment of it.
NoRender == [pc |-> "free", data |-> <<>>, target |-> DataNull, cur |-> 0,
             input |-> [kind |-> "null", n |-> 0], alone |-> TRUE]
DataInFlight(tk) == {r \in 1..MaxRenders : tk[r].pc = "bind"}

\* The state after construction and the parse of the page: no content, no
\* timer, the component out of the tree its parent's children are in.
DataCreated(targets) ==
  /\ dt \in {[target |-> v, content |-> <<>>,
              ctx |-> [c \in 1..(MaxRenders * MaxItems) |->
                         [kids |-> <<>>, nodes |-> <<>>, item |-> 0,
                          bound |-> FALSE]],
              parent |-> <<DataSib>>, comp |-> <<>>, open |-> FALSE,
              shadow |-> <<>>, q |-> <<>>, inside |-> <<>>,
              timer |-> 0, log |-> <<>>,
              calls |-> [all |-> 0, same |-> 0, connects |-> 0]] :
              v \in targets}
  /\ dtTasks = [r \in 1..MaxRenders |-> NoRender]

DataConnected(d) == DataComp \in Range(d.parent)
\* The nodes of clones that are in the page, wherever.
DataInDom(d) == (Range(d.parent) \cup Range(d.comp) \cup Range(d.shadow)
                 \cup Range(d.q) \cup Range(d.inside)) \ {DataComp, DataSib}

\* Lines 145-156: the node and the tree, in which 'shadow' opens the root.
DataGetTargetContext(d) ==
  CASE d.target = "before" -> <<d, DataComp>>
    [] d.target = "after" ->
         <<d, IF DataConnected(d) /\ IndexOf(d.parent, DataComp) < Len(d.parent)
              THEN d.parent[IndexOf(d.parent, DataComp) + 1] ELSE DataNull>>
    [] d.target = "shadow" -> <<[d EXCEPT !.open = TRUE], DataShadow>>
    [] OTHER -> <<d, IF d.target = "#q" /\ DataConnected(d)
                     THEN DataQ ELSE DataNull>>

\* DataTemplate.insert, lines 167-184, over the fragments cs: the target
\* is looked up when none is at hand, and the one found serves the
\* fragments after it.  DataPlace is lines 169-183 for one fragment c and
\* the target node at: ok is FALSE if insertBefore threw because at is no
\* child of the parent.
RECURSIVE DataInsert(_, _, _)
DataInsert(x, cs, ref) ==
  LET DataPlace(d, c, at) ==
        LET kids == d.ctx[c].kids
            take == [d EXCEPT !.ctx[c].kids = <<>>]
            attach(e) ==
              [d |-> [e EXCEPT !.log = Append(@,
                        [ev |-> "attach", c |-> c,
                         in |-> Range(e.ctx[c].nodes) \cap DataInDom(e) # {}])],
               ok |-> TRUE]
        IN  IF d.target \in {"before", "after"}
            THEN IF ~DataConnected(d) THEN attach(d)
                 ELSE IF at = DataNull
                      THEN attach([take EXCEPT !.parent = @ \o kids])
                 ELSE IF at \in Range(d.parent)
                      THEN attach([take EXCEPT !.parent =
                                     InsertAt(@, IndexOf(d.parent, at), kids)])
                      ELSE [d |-> d, ok |-> FALSE]
            ELSE CASE at = DataNull -> attach(d)
                   [] at = DataShadow ->
                        attach([take EXCEPT !.shadow = @ \o kids])
                   [] at = DataQ -> attach([take EXCEPT !.q = @ \o kids])
                   [] at = DataComp -> attach([take EXCEPT !.comp = @ \o kids])
                   [] OTHER -> attach([take EXCEPT !.inside = @ \o kids])
  IN  IF cs = <<>> \/ ~x.ok THEN x
      ELSE LET g == IF ref = DataNull THEN DataGetTargetContext(x.d)
                    ELSE <<x.d, ref>>
           IN  DataInsert(DataPlace(g[1], Head(cs), g[2]), Tail(cs), g[2])

\* DataTemplate.remove, lines 192-198.  DataReturn is lines 194-196 for one
\* entry: its nodes go back to it, then 'detach'.
DataRemove(d) ==
  LET DataReturn(b, c) ==
        LET nodes == b.ctx[c].nodes
            S == Range(nodes)
            e == [b EXCEPT !.ctx[c].kids = Without(@, S) \o nodes,
                           !.parent = Without(@, S), !.comp = Without(@, S),
                           !.shadow = Without(@, S), !.q = Without(@, S),
                           !.inside = Without(@, S)]
        IN  [e EXCEPT !.log = Append(@,
               [ev |-> "detach", c |-> c,
                in |-> Range(e.ctx[c].nodes) \cap DataInDom(e) # {}])]
      RECURSIVE DataRemoveEach(_, _)
      DataRemoveEach(b, cs) ==
        IF cs = <<>> THEN b
        ELSE DataRemoveEach(DataReturn(b, Head(cs)), Tail(cs))
  IN  DataRemoveEach(d, d.content)

\* A clear that takes the content out of the tree and keeps the list.
DataRemoveOnly(d) == DataRemove(d)

\* DataTemplate.clear, lines 121-124.
DataClear(d) == [DataRemove(d) EXCEPT !.content = <<>>]

\* The clone a render makes for an item.
ContextOf(r, item) == (r - 1) * MaxItems + item

\* Lines 86-89: the next item is cloned and its binder called, or the loop
\* ends.
DataNext(x, r) ==
  LET tk == x.tk[r] IN
  IF tk.data = <<>> THEN [x EXCEPT !.tk[r].pc = "done", !.tk[r].cur = 0]
  ELSE LET c == ContextOf(r, Head(tk.data)) IN
       [x EXCEPT !.d.ctx[c] = [kids |-> << <<c, 1>> >>, nodes |-> <<>>,
                                item |-> Head(tk.data), bound |-> FALSE],
                 !.tk[r] = [tk EXCEPT !.pc = "bind", !.cur = c,
                                      !.data = Tail(tk.data)]]

Items(data) == IF data.kind = "value" THEN <<1>> ELSE [i \in 1..data.n |-> i]

\* DataTemplate.render up to its first await, lines 81-89.
DataRender(data) ==
  /\ \E q \in 1..MaxRenders : dtTasks[q].pc = "free"
  /\ LET r == CHOOSE q \in 1..MaxRenders :
                /\ dtTasks[q].pc = "free"
                /\ \A u \in 1..MaxRenders : dtTasks[u].pc = "free" => q <= u
         cleared == DataClear(dt)
         g == DataGetTargetContext(cleared)
         began == [q \in 1..MaxRenders |->
                     IF q = r
                       THEN [NoRender EXCEPT !.pc = "loop", !.input = data,
                                             !.alone = DataInFlight(dtTasks) = {}]
                       ELSE IF q \in DataInFlight(dtTasks)
                              THEN [dtTasks[q] EXCEPT !.alone = FALSE]
                              ELSE dtTasks[q]]
         x == IF data.kind = "null"
              THEN [d |-> cleared, tk |-> [began EXCEPT ![r].pc = "done"]]
              ELSE DataNext([d |-> g[1],
                             tk |-> [began EXCEPT ![r].data = Items(data),
                                                  ![r].target = g[2]]], r)
     IN  dt' = x.d /\ dtTasks' = x.tk
  /\ UNCHANGED <<attrs, context, frag, dom, timer, tasks, log, changes, si,
                 siTasks, ii, iiTasks, nav, srcnav, toggle>>

\* The binder of the item settles; when it resolved, lines 90-92 run and the
\* loop goes on to the next item.  adds: the binder put a node of its own
\* in the clone.
DataBinderSettled(r, ok, adds) ==
  /\ dtTasks[r].pc = "bind"
  /\ LET c == dtTasks[r].cur
         kids == dt.ctx[c].kids \o (IF adds THEN << <<c, 2>> >> ELSE <<>>)
         bound == [dt EXCEPT !.ctx[c].kids = kids, !.ctx[c].nodes = kids,
                             !.ctx[c].bound = TRUE,
                             !.content = Append(@, c)]
         y == DataInsert([d |-> bound, ok |-> TRUE], <<c>>, dtTasks[r].target)
         x == IF ~ok THEN [d |-> dt, tk |-> [dtTasks EXCEPT ![r].pc = "failed"]]
              ELSE IF ~y.ok
                   THEN [d |-> y.d, tk |-> [dtTasks EXCEPT ![r].pc = "failed"]]
                   ELSE DataNext([d |-> y.d, tk |-> dtTasks], r)
     IN  dt' = x.d /\ dtTasks' = x.tk
  /\ UNCHANGED <<attrs, context, frag, dom, timer, tasks, log, changes, si,
                 siTasks, ii, iiTasks, nav, srcnav, toggle>>

\* connectedCallback, line 97, with the component put at place p.
DataConnect(p) ==
  /\ ~DataConnected(dt)
  /\ dt.calls.connects < MaxConnects
  /\ LET d == [dt EXCEPT !.parent = InsertAt(@, p, <<DataComp>>),
                         !.calls.connects = @ + 1]
     IN  dt' = DataInsert([d |-> d, ok |-> TRUE], d.content, DataNull).d
  /\ UNCHANGED <<dtTasks, attrs, context, frag, dom, timer, tasks, log,
                 changes, si, siTasks, ii, iiTasks, nav, srcnav, toggle>>

\* disconnectedCallback, line 98.
DataDisconnect ==
  /\ DataConnected(dt)
  /\ dt' = DataRemove([dt EXCEPT !.parent = Without(@, {DataComp})])
  /\ UNCHANGED <<dtTasks, attrs, context, frag, dom, timer, tasks, log,
                 changes, si, siTasks, ii, iiTasks, nav, srcnav, toggle>>

\* attributeChangedCallback('target', dt.target, value), lines 102-110:
\* nothing when the value is the one it was, else the deferred callback is
\* set anew.
DataAttributeChanged(value) ==
  /\ dt.calls.all < MaxChanges
  /\ dt' = [dt EXCEPT !.target = value,
                      !.timer = IF dt.target = value THEN @ ELSE 1,
                      !.calls.all = @ + 1,
                      !.calls.same = IF dt.target = value THEN @ + 1 ELSE @]
  /\ UNCHANGED <<dtTasks, attrs, context, frag, dom, timer, tasks, log,
                 changes, si, siTasks, ii, iiTasks, nav, srcnav, toggle>>

\* The callback of setTimeout(..., 0), lines 105-109, whose body is lines
\* 106-108.
DataTimerFires ==
  /\ dt.timer > 0
  /\ LET d == [dt EXCEPT !.timer = 0]
     IN  dt' = IF d.content = <<>> THEN d
               ELSE DataInsert([d |-> DataRemove(d), ok |-> TRUE],
                               d.content, DataNull).d
  /\ UNCHANGED <<dtTasks, attrs, context, frag, dom, timer, tasks, log,
                 changes, si, siTasks, ii, iiTasks, nav, srcnav, toggle>>

\* ------------------------------------------------------------ NavComponent
\* src/nav-component.js, lines 10-217.  Strings are sequences of characters;
\* the URL hash is a sequence of the characters after its leading '#', in
\* which an escape such as %23 is one element and "%" is a percent sign
\* that begins no escape.
\* nav-components on the page
MaxNavs == 2
\* clicks of the user on anchors, per behaviour
MaxClicks == 2
\* hashchange events waiting to be dispatched
MaxPending == 2
Undefined == <<"undefined">>
NoAttribute == <<"null">>

\* encodeURIComponent on the characters the model has; the value undefined
\* is converted to the nine characters of its name first.
EncodeURIComponent(str) ==
  LET EncodeChar(ch) ==
        CASE ch = "#" -> "%23" [] ch = "=" -> "%3D" [] ch = "%" -> "%25"
          [] OTHER -> ch
  IN  IF str = Undefined THEN <<"u", "n", "d", "e", "f", "i", "n", "e", "d">>
      ELSE [i \in 1..Len(str) |-> EncodeChar(str[i])]

\* decodeURIComponent: a percent sign that begins no escape is a URIError.
Malformed(raw) == \E i \in 1..Len(raw) : raw[i] = "%"
DecodeURIComponent(raw) ==
  LET DecodeChar(ch) ==
        CASE ch = "%23" -> "#" [] ch = "%3D" -> "=" [] ch = "%25" -> "%"
          [] OTHER -> ch
  IN  [i \in 1..Len(raw) |-> DecodeChar(raw[i])]

\* String.split(sep).
RECURSIVE Split(_, _)
Split(str, sep) ==
  IF \A i \in 1..Len(str) : str[i] # sep THEN <<str>>
  ELSE LET at == CHOOSE i \in 1..Len(str) :
                   str[i] = sep /\ \A j \in 1..(i - 1) : str[j] # sep
       IN  <<SubSeq(str, 1, at - 1)>> \o Split(SubSeq(str, at + 1, Len(str)), sep)

\* obj[key] = value on an object kept as its entries in key order.
SetEntry(entries, key, value) ==
  IF \E i \in 1..Len(entries) : entries[i].key = key
  THEN [i \in 1..Len(entries) |->
          IF entries[i].key = key THEN [key |-> key, value |-> value]
          ELSE entries[i]]
  ELSE Append(entries, [key |-> key, value |-> value])
RECURSIVE FromEntries(_)
FromEntries(pairs) ==
  IF pairs = <<>> THEN <<>>
  ELSE LET last == pairs[Len(pairs)]
       IN  SetEntry(FromEntries(SubSeq(pairs, 1, Len(pairs) - 1)),
                    last.key, last.value)
Lookup(entries, key) ==
  IF \E i \in 1..Len(entries) : entries[i].key = key
  THEN entries[CHOOSE i \in 1..Len(entries) : entries[i].key = key].value
  ELSE Undefined

\* NavComponent.getHash, lines 184-191: ok is FALSE when it throws.
\* ParseEntry is line 189 for one part: /^([^=]+)=?(.*)$/, then
\* decodeURIComponent of the two groups; a part that begins with '=' matches
\* nothing and gives [].
GetHash(raw) ==
  LET parts == SelectSeq(Split(raw, "#"), LAMBDA p : p # <<>>)
      ParseEntry(part) ==
        LET eq == IF \E i \in 1..Len(part) : part[i] = "="
                  THEN CHOOSE i \in 1..Len(part) :
                         part[i] = "=" /\ \A j \in 1..(i - 1) : part[j] # "="
                  ELSE Len(part) + 1
        IN  IF eq = 1 THEN [key |-> Undefined, value |-> Undefined]
            ELSE [key |-> DecodeURIComponent(SubSeq(part, 1, eq - 1)),
                  value |-> DecodeURIComponent(
                              SubSeq(part, eq + 1, Len(part)))]
  IN  [ok |-> \A i \in 1..Len(parts) :
                parts[i][1] = "=" \/ ~Malformed(parts[i]),
       entries |-> FromEntries([i \in 1..Len(parts) |->
                                 ParseEntry(parts[i])])]

\* The string setHash builds, lines 199-201; Join is Array.join(sep).
HashString(entries) ==
  LET RECURSIVE Join(_, _)
      Join(strs, sep) ==
        IF strs = <<>> THEN <<>>
        ELSE IF Len(strs) = 1 THEN strs[1]
        ELSE strs[1] \o <<sep>> \o Join(Tail(strs), sep)
  IN  Join([i \in 1..Len(entries) |->
              EncodeURIComponent(entries[i].key) \o <<"=">>
                \o EncodeURIComponent(entries[i].value)], "#")

\* The anchors a[href]:not([target]) of a component, in document order, and
\* the first of them with the class 'active' or the attribute default (0:
\* none), lines 135-159.
QueryActiveItem(items) ==
  LET found == {i \in 1..Len(items) : items[i].active}
  IN  IF found = {} THEN 0 ELSE CHOOSE i \in found : \A j \in found : i <= j
QueryDefaultItem(items) ==
  LET found == {i \in 1..Len(items) : items[i].default}
  IN  IF found = {} THEN 0 ELSE CHOOSE i \in found : \A j \in found : i <= j

\* Lines 37-43 and 102-107: the class 'active' on the item at i alone.
Activate(items, i) ==
  [j \in 1..Len(items) |-> [items[j] EXCEPT !.active = (j = i)]]

\* NavComponent.setHash, lines 198-204: an assignment that changes the hash
\* queues a hashchange event.
SetHash(x, entries) ==
  LET next == HashString(entries)
  IN  IF x.hash = next THEN x
      ELSE [x EXCEPT !.hash = next,
                     !.pending = IF @ < MaxPending THEN @ + 1 ELSE @,
                     !.dropped = @ \/ x.pending = MaxPending]

\* NavComponent.post, lines 117-127.
Post(x, c) ==
  LET items == x.comps[c].items
      active == QueryActiveItem(items)
      src == IF active # 0 THEN items[active].href ELSE NoAttribute
  IN  [x EXCEPT !.comps[c].targets = [t \in 1..Len(@) |-> src]]

\* NavComponent.push, lines 66-81.
Push(x, c) ==
  LET items == x.comps[c].items
      found == QueryActiveItem(items)
      active == IF found # 0 THEN found ELSE QueryDefaultItem(items)
      marked == IF active # 0
                THEN [x EXCEPT !.comps[c].items[active].active = TRUE] ELSE x
      src == IF active # 0 THEN items[active].href ELSE <<>>
      name == x.comps[c].hashName
      hash == GetHash(x.hash)
  IN  IF name = <<>> THEN Post(marked, c)
      ELSE IF ~hash.ok THEN [marked EXCEPT !.comps[c].threw = TRUE]
      ELSE SetHash(marked, IF src # <<>> THEN SetEntry(hash.entries, name, src)
                           ELSE SelectSeq(hash.entries,
                                          LAMBDA e : e.key # name))

\* The click listener of the constructor, lines 30-53, for a click on the
\* item at i.
ClickHandler(x, c, i) == Push([x EXCEPT !.comps[c].items = Activate(@, i)], c)

\* NavComponent.pull, lines 88-110.
Pull(x, c) ==
  LET comp == x.comps[c]
      items == comp.items
      hash == GetHash(x.hash)
      truthy == SelectSeq(comp.targets, LAMBDA v : v \notin {NoAttribute, <<>>})
      current == IF comp.hashName # <<>> THEN Lookup(hash.entries, comp.hashName)
                 ELSE IF truthy # <<>> THEN truthy[1] ELSE Undefined
      found == {i \in 1..Len(items) : items[i].href = current}
      match == IF found = {} THEN 0
               ELSE CHOOSE i \in found : \A j \in found : i <= j
      fallback == QueryDefaultItem(items)
  IN  IF comp.targets = <<>> THEN x
      ELSE IF comp.hashName # <<>> /\ ~hash.ok
           THEN [x EXCEPT !.comps[c].threw = TRUE]
      ELSE IF match = 0 /\ fallback # 0 THEN ClickHandler(x, c, fallback)
      ELSE Post([x EXCEPT !.comps[c].items = Activate(@, match)], c)

Anchor(href, default) == [href |-> href, active |-> FALSE, default |-> default]

\* The state after construction: every component out of the document, its
\* one target element without the attribute, no event waiting.  dropped: an
\* event was left out because MaxPending were waiting; clicked: the anchor
\* of the latest click, while no component was moved since; threw: a
\* handler of the component ended in an exception.
NavCreated(names, layouts, hashes) ==
  nav \in {[hash |-> h, pending |-> 0, dropped |-> FALSE,
            listeners |-> <<>>, clicks |-> 0,
            clicked |-> [c |-> 0, i |-> 0], comps |-> cs] :
             h \in hashes,
             cs \in [1..MaxNavs -> {[hashName |-> n, items |-> l,
                               targets |-> <<NoAttribute>>,
                               connected |-> FALSE, threw |-> FALSE] :
                                n \in names, l \in layouts}]}

\* connectedCallback, lines 207-210.
NavConnect(c) ==
  /\ ~nav.comps[c].connected
  /\ nav' = Pull([nav EXCEPT !.comps[c].connected = TRUE,
                             !.listeners = Append(@, c),
                             !.clicked = [c |-> 0, i |-> 0]], c)
  /\ UNCHANGED <<attrs, context, frag, dom, timer, tasks, log, changes, si,
                 siTasks, ii, iiTasks, dt, dtTasks, srcnav, toggle>>

\* disconnectedCallback, lines 211-214.
NavDisconnect(c) ==
  /\ nav.comps[c].connected
  /\ nav' = [nav EXCEPT !.comps[c].connected = FALSE,
                        !.clicked = [c |-> 0, i |-> 0],
                        !.comps[c].items = Activate(@, 0),
                        !.listeners = SelectSeq(@, LAMBDA l : l # c)]
  /\ UNCHANGED <<attrs, context, frag, dom, timer, tasks, log, changes, si,
                 siTasks, ii, iiTasks, dt, dtTasks, srcnav, toggle>>

\* The user clicks the anchor at i of a component that is in the document.
NavClick(c, i) ==
  /\ nav.comps[c].connected
  /\ nav.clicks < MaxClicks
  /\ nav' = ClickHandler([nav EXCEPT !.clicks = @ + 1,
                                     !.clicked = [c |-> c, i |-> i]], c, i)
  /\ UNCHANGED <<attrs, context, frag, dom, timer, tasks, log, changes, si,
                 siTasks, ii, iiTasks, dt, dtTasks, srcnav, toggle>>

\* The #navHandler of each listener in turn, line 206.
RECURSIVE PullEach(_, _)
PullEach(x, cs) == IF cs = <<>> THEN x ELSE PullEach(Pull(x, Head(cs)), Tail(cs))

\* One hashchange event is dispatched on the window.
NavHashChange ==
  /\ nav.pending > 0
  /\ nav' = PullEach([nav EXCEPT !.pending = @ - 1], nav.listeners)
  /\ UNCHANGED <<attrs, context, frag, dom, timer, tasks, log, changes, si,
                 siTasks, ii, iiTasks, dt, dtTasks, srcnav, toggle>>

\* ------------------------------------------------------------------ SrcNav
\* src/toggle-button.js, lines 208-338.
\* src-navs on the page
MaxSrcNavs == 2

\* SrcNav.getHash, lines 312-319: ok is FALSE when it throws.  Line 317
\* for one part: split('=') and decodeURIComponent of every piece;
\* fromEntries takes the first piece as the key and the second as the value.
SrcGetHash(raw) ==
  LET parts == SelectSeq(Split(raw, "#"), LAMBDA p : p # <<>>)
      SrcParseEntry(part) ==
        LET pieces == Split(part, "=")
        IN  [key |-> DecodeURIComponent(pieces[1]),
             value |-> IF Len(pieces) > 1 THEN DecodeURIComponent(pieces[2])
                       ELSE Undefined]
  IN  [ok |-> ~Malformed(raw),
       entries |-> FromEntries([i \in 1..Len(parts) |->
                                 SrcParseEntry(parts[i])])]

\* SrcNav.navigate, lines 283-305; src is NoAttribute for null.  SrcSetHash
\* is SrcNav.setHash, lines 326-330: the hash is assigned whatever it was,
\* and an assignment that changes it queues a hashchange event.
Navigate(x, c, src) ==
  LET SrcSetHash(y, entries) ==
        LET next == HashString(entries)
        IN  IF y.hash = next THEN y
            ELSE [y EXCEPT !.hash = next,
                           !.pending = IF @ < MaxPending THEN @ + 1 ELSE @,
                           !.dropped = @ \/ y.pending = MaxPending]
      comp == x.comps[c]
      items == Activate(comp.items, 0)
      fallback == QueryDefaultItem(items)
      hash == SrcGetHash(x.hash)
      named == comp.hashName # <<>>
                 /\ \E i \in 1..Len(hash.entries) :
                      hash.entries[i].key = comp.hashName
      goal == IF src # NoAttribute THEN src
             ELSE IF named THEN Lookup(hash.entries, comp.hashName)
             ELSE IF fallback # 0 THEN items[fallback].href
             ELSE NoAttribute
      actives == [i \in 1..Len(items) |->
                    [items[i] EXCEPT !.active = (items[i].href = goal)]]
      cleared == [x EXCEPT !.comps[c].items = items]
      marked == [x EXCEPT !.comps[c].items = actives]
      set == [marked EXCEPT !.comps[c].target = goal]
  IN  IF ~hash.ok THEN [cleared EXCEPT !.comps[c].threw = TRUE]
      ELSE IF goal \in {NoAttribute, Undefined} THEN cleared
      ELSE IF ~comp.found THEN marked
      ELSE IF comp.target = goal THEN marked
      ELSE IF comp.hashName = <<>> THEN set
      ELSE IF Lookup(hash.entries, comp.hashName) = goal THEN set
      ELSE SrcSetHash(set, SetEntry(hash.entries, comp.hashName, goal))

\* The state after construction: every component out of the document, no
\* anchor active, no event waiting.  found: the element #for exists;
\* settled: what the other components and the hash were when the latest
\* click was made, on a page with no event waiting.
NoClick == [c |-> 0, i |-> 0, hash |-> <<>>, comps |-> <<>>]

SrcCreated(names, layouts, hashes, attrs0) ==
  srcnav \in {[hash |-> h, pending |-> 0, dropped |-> FALSE,
               listeners |-> <<>>, clicks |-> 0, clicked |-> NoClick,
               comps |-> cs] :
                h \in hashes,
                cs \in [1..MaxSrcNavs -> {[hashName |-> n, items |-> l,
                                     target |-> a, found |-> TRUE,
                                     attached |-> FALSE, threw |-> FALSE] :
                                      n \in names, l \in layouts,
                                      a \in attrs0}]}

\* connectedCallback: SrcNav.attach, lines 257-262.
SrcConnect(c) ==
  /\ ~srcnav.comps[c].attached
  /\ srcnav' = Navigate([srcnav EXCEPT !.comps[c].attached = TRUE,
                                       !.listeners = Append(@, c),
                                       !.clicked = NoClick], c, NoAttribute)
  /\ UNCHANGED <<attrs, context, frag, dom, timer, tasks, log, changes, si,
                 siTasks, ii, iiTasks, dt, dtTasks, nav, toggle>>

\* disconnectedCallback: SrcNav.detach, lines 270-274.
SrcDisconnect(c) ==
  /\ srcnav.comps[c].attached
  /\ srcnav' = [srcnav EXCEPT !.comps[c].attached = FALSE,
                              !.listeners = SelectSeq(@, LAMBDA l : l # c),
                              !.clicked = NoClick]
  /\ UNCHANGED <<attrs, context, frag, dom, timer, tasks, log, changes, si,
                 siTasks, ii, iiTasks, dt, dtTasks, nav, toggle>>

\* The user clicks the anchor at i: the click listener, lines 232-244.
SrcClick(c, i) ==
  /\ srcnav.comps[c].attached
  /\ srcnav.clicks < MaxClicks
  /\ srcnav' = Navigate([srcnav EXCEPT
                           !.clicks = @ + 1,
                           !.clicked = IF srcnav.pending = 0
                                       THEN [c |-> c, i |-> i,
                                             hash |-> srcnav.hash,
                                             comps |-> srcnav.comps]
                                       ELSE NoClick],
                        c, srcnav.comps[c].items[i].href)
  /\ UNCHANGED <<attrs, context, frag, dom, timer, tasks, log, changes, si,
                 siTasks, ii, iiTasks, dt, dtTasks, nav, toggle>>

\* The #navHandler of each listener in turn, line 275.
RECURSIVE NavigateEach(_, _)
NavigateEach(x, cs) ==
  IF cs = <<>> THEN x
  ELSE NavigateEach(Navigate(x, Head(cs), NoAttribute), Tail(cs))

\* One hashchange event is dispatched on the window.
SrcHashChange ==
  /\ srcnav.pending > 0
  /\ srcnav' = NavigateEach([srcnav EXCEPT !.pending = @ - 1],
                            srcnav.listeners)
  /\ UNCHANGED <<attrs, context, frag, dom, timer, tasks, log, changes, si,
                 siTasks, ii, iiTasks, dt, dtTasks, nav, toggle>>

\* ------------------------------------------------------------ ToggleButton
\* src/toggle-button.js, lines 1-52.
\* clicks on the button
MaxToggles == 3

\* addEventListener and removeEventListener of one handler on the target:
\* a pair that is registered already is not registered again.
RECURSIVE AddListeners(_, _, _)
AddListeners(listeners, names, h) ==
  IF names = <<>> THEN listeners
  ELSE LET l == [name |-> Head(names), h |-> h]
       IN  AddListeners(IF l \in Range(listeners) THEN listeners
                        ELSE Append(listeners, l), Tail(names), h)
RemoveListeners(listeners, names, h) ==
  SelectSeq(listeners, LAMBDA l : ~(l.h = h /\ l.name \in Range(names)))

\* The revert handler of lines 46-49 that only unregisters itself from the
\* first name of its list.
RevertFirstNameOnly(x, h) ==
  [x EXCEPT !.toggled = FALSE,
            !.listeners = RemoveListeners(@, <<x.handlers[h][1]>>, h)]

\* The revert handler h, lines 46-49: handlers[h] is the events list that
\* its closure holds.
Revert(x, h) ==
  [x EXCEPT !.toggled = FALSE,
            !.listeners = RemoveListeners(@, x.handlers[h], h)]

\* ToggleButton.toggle, lines 39-51.  armed: the handler of the latest
\* toggle that turned the target on, 0 when it registered none.
\* Line 44: the events attribute, absent or empty, gives no name; else
\* String.split(/\s+/g), where a run of spaces separates once, and a string
\* that begins or ends with spaces gives an empty first or last piece.
Toggle(x) ==
  LET on == [x EXCEPT !.toggled = ~@]
      pieces == Split(x.events, " ")
      kept == {i \in 1..Len(pieces) :
                 pieces[i] # <<>> \/ i = 1 \/ i = Len(pieces)}
      Nth(k) == CHOOSE i \in kept : Cardinality({j \in kept : j <= i}) = k
      events == IF x.events \in {NoAttribute, <<>>} THEN <<>>
                ELSE [k \in 1..Cardinality(kept) |-> pieces[Nth(k)]]
      handler == Len(x.handlers) + 1
  IN  IF ~x.found THEN x
      ELSE IF ~on.toggled THEN on
      ELSE IF events = <<>> THEN [on EXCEPT !.armed = 0]
      ELSE [on EXCEPT !.armed = handler,
                      !.handlers = Append(@, events),
                      !.listeners = AddListeners(@, events, handler)]

\* The state after construction; found: the element with the id of the for
\* attribute exists.  last: the latest click or event.
ToggleCreated(events, founds) ==
  toggle \in {[events |-> e, found |-> f, toggled |-> FALSE,
               handlers |-> <<>>, listeners |-> <<>>, armed |-> 0,
               clicks |-> 0, last |-> [kind |-> "none", name |-> <<>>]] :
                e \in events, f \in founds}

\* The user clicks the button: the click listener of line 21.
ToggleClick ==
  /\ toggle.clicks < MaxToggles
  /\ toggle' = Toggle([toggle EXCEPT !.clicks = @ + 1,
                                     !.last = [kind |-> "click", name |-> <<>>]])
  /\ UNCHANGED <<attrs, context, frag, dom, timer, tasks, log, changes, si,
                 siTasks, ii, iiTasks, dt, dtTasks, nav, srcnav>>

\* The events attribute of the button is set.
ToggleSetEvents(value) ==
  /\ toggle.events # value
  /\ toggle' = [toggle EXCEPT !.events = value]
  /\ UNCHANGED <<attrs, context, frag, dom, timer, tasks, log, changes, si,
                 siTasks, ii, iiTasks, dt, dtTasks, nav, srcnav>>

\* An event is dispatched on the target: the handlers registered for its
\* name when the dispatch begins run in the order of their registration.
RECURSIVE RevertEach(_, _)
RevertEach(x, hs) ==
  IF hs = <<>> THEN x ELSE RevertEach(Revert(x, Head(hs)), Tail(hs))
ToggleDispatch(name) ==
  LET found == SelectSeq(toggle.listeners, LAMBDA l : l.name = name)
  IN  /\ toggle.found
      /\ toggle' = RevertEach([toggle EXCEPT !.last = [kind |-> "event",
                                                      name |-> name]],
                              [i \in 1..Len(found) |-> found[i].h])
      /\ UNCHANGED <<attrs, context, frag, dom, timer, tasks, log, changes,
                     si, siTasks, ii, iiTasks, dt, dtTasks, nav, srcnav>>

\* --------------------------------------------------------- specifications
Init ==
  /\ ImportCreated({a \in [from : {"", "#tpl", "a.html"},
                            target : {"insert", "before", "after", "shadow",
                                      "#q", "#none"},
                            scripts : BOOLEAN] :
                      a.scripts => a.from # "a.html"})
  /\ ShadowCreated({ShadowSrcs[1]}, {FALSE})
  /\ InlineCreated({"insert"})
  /\ DataCreated({"after"})
  /\ NavCreated({<<>>}, {<<Anchor(<<"a">>, FALSE)>>}, {<<>>})
  /\ SrcCreated({<<>>}, {<<Anchor(<<"a">>, FALSE)>>}, {<<>>}, {NoAttribute})
  /\ ToggleCreated({NoAttribute}, {TRUE})

\* A page that inserts and removes a component, with the scripts of its
\* template when it has the scripts attribute, while its fetches and scripts
\* complete in any order.
Next ==
  \/ \E p \in 1..(Len(dom.parent) + 1) : Connect(p)
  \/ Disconnect
  \/ \E t \in 1..MaxImports : TemplateResolved(t)
  \/ \E t \in 1..MaxImports, st \in {"ok", "non2xx"} : FetchResolved(t, st)
  \/ \E t \in 1..MaxImports : FetchRejected(t)
  \/ \E t \in 1..MaxImports : ScriptFailed(t)
  \/ \E t \in 1..MaxImports, adds \in BOOLEAN : ScriptCalled(t, adds)
  \/ \E t \in 1..MaxImports, ok \in BOOLEAN : ScriptSettled(t, ok)

Spec == Init /\ [][Next]_vars

\* A page that also changes the from and target of a component without
\* scripts, and the deferred callbacks that follow.
InitReconfig == Init /\ ~attrs.scripts

NextReconfig ==
  \/ \E p \in 1..(Len(dom.parent) + 1) : Connect(p)
  \/ Disconnect
  \/ \E v \in {"", "#tpl", "a.html"} : AttributeChanged("from", v)
  \/ \E v \in {"insert", "before", "after", "shadow", "#q", "#none"} :
       AttributeChanged("target", v)
  \/ TimerFires
  \/ \E t \in 1..MaxImports : TemplateResolved(t)
  \/ \E t \in 1..MaxImports, st \in {"ok", "non2xx"} : FetchResolved(t, st)
  \/ \E t \in 1..MaxImports : FetchRejected(t)

SpecReconfig == InitReconfig /\ [][NextReconfig]_vars

\* A page that inserts and removes a component that fetches a document and
\* runs its scripts.
InitScripts ==
  /\ ImportCreated({[from |-> "a.html", target |-> "insert", scripts |-> TRUE]})
  /\ ShadowCreated({ShadowSrcs[1]}, {FALSE})
  /\ InlineCreated({"insert"})
  /\ DataCreated({"after"})
  /\ NavCreated({<<>>}, {<<Anchor(<<"a">>, FALSE)>>}, {<<>>})
  /\ SrcCreated({<<>>}, {<<Anchor(<<"a">>, FALSE)>>}, {<<>>}, {NoAttribute})
  /\ ToggleCreated({NoAttribute}, {TRUE})

NextScripts ==
  \/ \E p \in 1..(Len(dom.parent) + 1) : Connect(p)
  \/ Disconnect
  \/ \E t \in 1..MaxImports, st \in {"ok", "non2xx"} : FetchResolved(t, st)
  \/ \E t \in 1..MaxImports : FetchRejected(t)
  \/ \E t \in 1..MaxImports : ScriptFailed(t)
  \/ \E t \in 1..MaxImports, adds \in BOOLEAN : ScriptCalled(t, adds)
  \/ \E t \in 1..MaxImports, ok \in BOOLEAN : ScriptSettled(t, ok)

SpecScripts == InitScripts /\ [][NextScripts]_vars

InitShadow ==
  /\ ImportCreated({[from |-> "", target |-> "insert", scripts |-> FALSE]})
  /\ ShadowCreated(Range(ShadowSrcs), BOOLEAN)
  /\ InlineCreated({"insert"})
  /\ DataCreated({"after"})
  /\ NavCreated({<<>>}, {<<Anchor(<<"a">>, FALSE)>>}, {<<>>})
  /\ SrcCreated({<<>>}, {<<Anchor(<<"a">>, FALSE)>>}, {<<>>}, {NoAttribute})
  /\ ToggleCreated({NoAttribute}, {TRUE})

NextShadow ==
  \/ ShadowConnect
  \/ ShadowDisconnect
  \/ \E src \in Range(ShadowSrcs) : ShadowSrcChanged(src)
  \/ \E t \in 1..MaxShadowTasks, ok \in BOOLEAN : ShadowDetachSettled(t, ok)
  \/ \E t \in 1..MaxShadowTasks : ShadowChangeResumes(t)
  \/ \E t \in 1..MaxShadowTasks, o \in {"ok", "non2xx", "reject"} :
       ShadowFetchSettled(t, o)
  \/ \E t \in 1..MaxShadowTasks, r \in {"script", "notscript", "module"} :
       ShadowModuleSettled(t, r)
  \/ \E t \in 1..MaxShadowTasks, ok \in BOOLEAN : ShadowScriptSettled(t, ok)

SpecShadow == InitShadow /\ [][NextShadow]_vars

InitInline ==
  /\ ImportCreated({[from |-> "", target |-> "insert", scripts |-> FALSE]})
  /\ ShadowCreated({ShadowSrcs[1]}, {FALSE})
  /\ InlineCreated({"insert", "before", "after"})
  /\ DataCreated({"after"})
  /\ NavCreated({<<>>}, {<<Anchor(<<"a">>, FALSE)>>}, {<<>>})
  /\ SrcCreated({<<>>}, {<<Anchor(<<"a">>, FALSE)>>}, {<<>>}, {NoAttribute})
  /\ ToggleCreated({NoAttribute}, {TRUE})

NextInline ==
  \/ \E p \in 1..(Len(ii.parent) + 1) : InlineConnect(p)
  \/ InlineDisconnect
  \/ InlineSrcChanged
  \/ \E t \in 1..MaxInlineTasks : InlineChangeResumes(t)
  \/ \E t \in 1..MaxInlineTasks, o \in {"ok", "non2xx", "reject"} :
       InlineFetchSettled(t, o)

SpecInline == InitInline /\ [][NextInline]_vars

\* A page that renders data with a data-template and inserts and removes it.
InitTemplate ==
  /\ ImportCreated({[from |-> "", target |-> "insert", scripts |-> FALSE]})
  /\ ShadowCreated({ShadowSrcs[1]}, {FALSE})
  /\ InlineCreated({"insert"})
  /\ DataCreated({"before", "after", "shadow", "#q", "#none"})
  /\ NavCreated({<<>>}, {<<Anchor(<<"a">>, FALSE)>>}, {<<>>})
  /\ SrcCreated({<<>>}, {<<Anchor(<<"a">>, FALSE)>>}, {<<>>}, {NoAttribute})
  /\ ToggleCreated({NoAttribute}, {TRUE})

NextTemplate ==
  \/ \E p \in 1..(Len(dt.parent) + 1) : DataConnect(p)
  \/ DataDisconnect
  \/ \E data \in {[kind |-> "null", n |-> 0], [kind |-> "value", n |-> 1]}
                   \cup {[kind |-> "array", n |-> n] : n \in 0..MaxItems} :
       DataRender(data)
  \/ \E r \in 1..MaxRenders, ok \in BOOLEAN, adds \in BOOLEAN :
       DataBinderSettled(r, ok, adds)

SpecTemplate == InitTemplate /\ [][NextTemplate]_vars

\* A page with an import-component of a template and a data-template of one
\* value, which sets the target of each, to the value it has or to another.
InitAttributes ==
  /\ ImportCreated({[from |-> "#tpl", target |-> "insert", scripts |-> FALSE]})
  /\ ShadowCreated({ShadowSrcs[1]}, {FALSE})
  /\ InlineCreated({"insert"})
  /\ DataCreated({"after"})
  /\ NavCreated({<<>>}, {<<Anchor(<<"a">>, FALSE)>>}, {<<>>})
  /\ SrcCreated({<<>>}, {<<Anchor(<<"a">>, FALSE)>>}, {<<>>}, {NoAttribute})
  /\ ToggleCreated({NoAttribute}, {TRUE})

NextAttributes ==
  \/ \E p \in 1..(Len(dom.parent) + 1) : Connect(p)
  \/ \E t \in 1..MaxImports : TemplateResolved(t)
  \/ \E v \in {"insert", "shadow"} : AttributeChanged("target", v)
  \/ TimerFires
  \/ \E p \in 1..(Len(dt.parent) + 1) : DataConnect(p)
  \/ DataRender([kind |-> "value", n |-> 1])
  \/ \E r \in 1..MaxRenders : DataBinderSettled(r, TRUE, FALSE)
  \/ \E v \in {"after", "shadow"} : DataAttributeChanged(v)
  \/ DataTimerFires

SpecAttributes == InitAttributes /\ [][NextAttributes]_vars

\* A page of nav-components whose anchors the user clicks.
InitNav ==
  /\ ImportCreated({[from |-> "", target |-> "insert", scripts |-> FALSE]})
  /\ ShadowCreated({ShadowSrcs[1]}, {FALSE})
  /\ InlineCreated({"insert"})
  /\ DataCreated({"after"})
  /\ NavCreated({<<>>, <<"n">>},
                {<<Anchor(<<"a">>, TRUE), Anchor(<<"b">>, FALSE)>>,
                 <<Anchor(<<"a">>, FALSE), Anchor(<<"b">>, FALSE)>>,
                 <<Anchor(<<"b">>, TRUE), Anchor(<<"a", "#", "b">>, FALSE)>>,
                 <<Anchor(<<>>, FALSE), Anchor(<<"a">>, FALSE)>>},
                {<<>>, <<"n", "=", "b">>, <<"m", "=", "a">>, <<"x">>,
                 <<"m", "=", "a", "#", "n", "=", "a", "%23", "b">>,
                 <<"5", "%">>})
  /\ SrcCreated({<<>>}, {<<Anchor(<<"a">>, FALSE)>>}, {<<>>}, {NoAttribute})
  /\ ToggleCreated({NoAttribute}, {TRUE})

NextNav ==
  \/ \E c \in 1..MaxNavs : NavConnect(c)
  \/ \E c \in 1..MaxNavs : NavDisconnect(c)
  \/ \E c \in 1..MaxNavs :
       \E i \in 1..Len(nav.comps[c].items) : NavClick(c, i)
  \/ NavHashChange

SpecNav == InitNav /\ [][NextNav]_vars

\* A page of nav-components that share the hash-name 'n', with anchors of
\* their own or in common.
InitNavShared ==
  /\ ImportCreated({[from |-> "", target |-> "insert", scripts |-> FALSE]})
  /\ ShadowCreated({ShadowSrcs[1]}, {FALSE})
  /\ InlineCreated({"insert"})
  /\ DataCreated({"after"})
  /\ NavCreated({<<"n">>},
                {<<Anchor(<<"a">>, TRUE), Anchor(<<"b">>, FALSE)>>,
                 <<Anchor(<<"a">>, FALSE), Anchor(<<"b">>, FALSE)>>,
                 <<Anchor(<<"a">>, TRUE)>>,
                 <<Anchor(<<"b">>, TRUE)>>},
                {<<>>, <<"n", "=", "b">>, <<"m", "=", "a">>})
  /\ SrcCreated({<<>>}, {<<Anchor(<<"a">>, FALSE)>>}, {<<>>}, {NoAttribute})
  /\ ToggleCreated({NoAttribute}, {TRUE})

SpecNavShared == InitNavShared /\ [][NextNav]_vars

\* A page of src-navs whose anchors the user clicks.
InitSrcNav ==
  /\ ImportCreated({[from |-> "", target |-> "insert", scripts |-> FALSE]})
  /\ ShadowCreated({ShadowSrcs[1]}, {FALSE})
  /\ InlineCreated({"insert"})
  /\ DataCreated({"after"})
  /\ NavCreated({<<>>}, {<<Anchor(<<"a">>, FALSE)>>}, {<<>>})
  /\ SrcCreated({<<>>, <<"n">>, <<"m">>},
                {<<Anchor(<<"a">>, TRUE), Anchor(<<"b">>, FALSE)>>,
                 <<Anchor(<<"a">>, FALSE), Anchor(<<"b">>, FALSE)>>},
                {<<>>, <<"x">>, <<"m", "=", "b">>, <<"m", "=", "a", "=", "b">>,
                 <<"n", "=", "b", "#", "m", "=", "a">>, <<"5", "%">>},
                {NoAttribute, <<"b">>})
  /\ ToggleCreated({NoAttribute}, {TRUE})

NextSrcNav ==
  \/ \E c \in 1..MaxSrcNavs : SrcConnect(c)
  \/ \E c \in 1..MaxSrcNavs : SrcDisconnect(c)
  \/ \E c \in 1..MaxSrcNavs :
       \E i \in 1..Len(srcnav.comps[c].items) : SrcClick(c, i)
  \/ SrcHashChange

SpecSrcNav == InitSrcNav /\ [][NextSrcNav]_vars

\* A toggle button that is clicked while events reach its target.
InitToggle ==
  /\ ImportCreated({[from |-> "", target |-> "insert", scripts |-> FALSE]})
  /\ ShadowCreated({ShadowSrcs[1]}, {FALSE})
  /\ InlineCreated({"insert"})
  /\ DataCreated({"after"})
  /\ NavCreated({<<>>}, {<<Anchor(<<"a">>, FALSE)>>}, {<<>>})
  /\ SrcCreated({<<>>}, {<<Anchor(<<"a">>, FALSE)>>}, {<<>>}, {NoAttribute})
  /\ ToggleCreated({NoAttribute, <<>>, <<"a">>, <<"a", " ", "b">>,
                    <<"b", " ", " ", "c">>, <<"a", " ", "a">>, <<" ", "c">>},
                   {TRUE, FALSE})

NextToggle ==
  \/ ToggleClick
  \/ \E value \in {NoAttribute, <<>>, <<"a">>, <<"a", " ", "b">>,
                    <<"b", " ", " ", "c">>, <<"a", " ", "a">>, <<" ", "c">>} :
       ToggleSetEvents(value)
  \/ \E name \in {<<"a">>, <<"b">>, <<"c">>} : ToggleDispatch(name)

SpecToggle == InitToggle /\ [][NextToggle]_vars

\* ----------------------------------------------------------------- claims
Settled(task) == task.pc \in {"done", "failed"}
\* The nodes of fragment f that are in the tree, in tree order.
InDomOf(f) ==
  SelectSeq(dom.parent \o dom.comp \o dom.shadow \o dom.q,
            LAMBDA n : FragOf(n) = f)
HostEvents == SelectSeq(log, LAMBDA e : e.ev \in {"insert", "remove"})
ImportEvents(t) ==
  SelectSeq(log, LAMBDA e : e.ev \in {"insert", "attach"} /\ e.t = t)

\* C1: the tree never holds, at the same time, nodes of the fragments of two
\* different imports of the component.
OneFragmentInDom == Cardinality({FragOf(n) : n \in DomNodes(dom)}) <= 1

\* C2: an import that a clear superseded while it was suspended has, once
\* settled, put no node into the tree and left no context of its own.
SupersededImportPlacesNothing ==
  \A t \in 1..MaxImports :
    (tasks[t].stale /\ Settled(tasks[t])) =>
      (tasks[t].put = <<>> /\ context # t)

\* C3: while the component holds the context of a completed import that
\* nothing overlapped and whose placement resolved, the nodes that import
\* put into the tree are the recorded node list, and the tree holds exactly
\* these nodes of the fragment, each once and in recorded order; the list
\* has every parsed node and the fragment keeps none back.
OwnershipComplete ==
  \A t \in 1..MaxImports :
    (tasks[t].pc = "done" /\ ~Overlapped(tasks[t]) /\ context = t
       /\ tasks[t].placed # "none") =>
      /\ tasks[t].put = frag[t].nodes
      /\ InDomOf(t) = frag[t].nodes
      /\ frag[t].kids = <<>>
      /\ \A i \in 1..(frag[t].scripts + 1) :
           ContentNode(t, i) \in Range(frag[t].nodes)

\* C3 happens: an import nothing overlapped has placed, after the component,
\* its parsed nodes and a node one of its scripts added.
OwnershipCompleteWitness ==
  \E t \in 1..MaxImports :
    /\ tasks[t].pc = "done" /\ ~Overlapped(tasks[t]) /\ context = t
    /\ tasks[t].placed = "after"
    /\ Len(frag[t].nodes) > frag[t].scripts + 1
    /\ InDomOf(t) = frag[t].nodes

\* C4: a clear of the context of a completed import that nothing overlapped
\* leaves the tree around the component as that import found it.
ClearRestores ==
  [][\A c \in 1..MaxImports :
       (context = c /\ context' # c /\ tasks[c].pc = "done"
          /\ ~Overlapped(tasks[c])) =>
         Surrounding(dom') = tasks[c].snap]_vars

\* C4 happens: an import placed its nodes, the target was changed, and the
\* clear of the deferred callback took them out again.
ClearRestoresWitness ==
  \E c \in 1..MaxImports :
    /\ context = 0 /\ tasks[c].pc = "done" /\ ~Overlapped(tasks[c])
    /\ tasks[c].placed \notin {"none", attrs.target}
    /\ tasks[c].put # <<>>
    /\ \E i \in 1..Len(log) : log[i].ev = "remove" /\ log[i].f = c
    /\ Surrounding(dom) = tasks[c].snap
    /\ changes.served > 0

\* C5: at most one deferred callback is pending whatever the number of
\* changes; when it runs on a component that holds content with no import
\* suspended, it clears once and imports once, from the from of that moment,
\* and leaves no callback pending.
DebounceCollapses ==
  [][/\ timer' <= 1
     /\ (timer' < timer /\ changes'.all = changes.all /\ context # 0
          /\ InFlight(tasks) = {}) =>
         LET started == {t \in 1..MaxImports : tasks[t].pc = "free" /\ tasks'[t].pc # "free"}
         IN  /\ log' = log \o <<Event("remove", context, 0, TRUE, FALSE),
                                 Event("detach", context, 0, TRUE, FALSE)>>
             /\ context' = 0
             /\ timer' = 0
             /\ Cardinality(started) = IF attrs.from = "" THEN 0 ELSE 1
             /\ \A t \in started : /\ tasks'[t].from = attrs.from
                                     /\ tasks'[t].pc = "content"]_vars

\* C5 happens: two changes or more were served by one callback, which
\* cleared the content and began the one import, from the current from.
DebounceCollapsesWitness ==
  /\ changes.served >= 2 /\ timer = 0 /\ context = 0
  /\ Len(log) >= 4 /\ log[Len(log)].ev = "detach"
  /\ \E t \in 1..MaxImports : /\ tasks[t].pc = "content" /\ ~tasks[t].joined
                         /\ tasks[t].from = attrs.from
  /\ Cardinality(InFlight(tasks)) = 1

\* C6: on the component 'insert' and 'remove' alternate, 'insert' first, a
\* 'remove' carrying the fragment of the 'insert' before it; on each
\* fragment 'attach' and 'detach' alternate, 'attach' first.
EventsAlternate ==
  /\ \A i \in 1..Len(HostEvents) :
       /\ HostEvents[i].ev = IF i % 2 = 1 THEN "insert" ELSE "remove"
       /\ i % 2 = 0 => HostEvents[i].f = HostEvents[i - 1].f
  /\ \A f \in 1..MaxImports :
       LET FragEvents == SelectSeq(log, LAMBDA e :
                           e.ev \in {"attach", "detach"} /\ e.f = f)
       IN  \A i \in 1..Len(FragEvents) :
             FragEvents[i].ev = IF i % 2 = 1 THEN "attach" ELSE "detach"

\* C7: an import that reached placement dispatched 'insert' once, with the
\* node list captured and none of its nodes in the tree, and right after it
\* 'attach' once, on the same fragment, with the nodes in the tree when the
\* placement resolved; an import that did not dispatched neither.
PlacementOrder ==
  \A t \in 1..MaxImports :
    IF tasks[t].pc = "done"
      THEN /\ Len(ImportEvents(t)) = 2
           /\ \E i \in 1..(Len(log) - 1) :
                /\ log[i].ev = "insert" /\ log[i].t = t
                /\ log[i].cap /\ ~log[i].in
                /\ log[i + 1].ev = "attach" /\ log[i + 1].t = t
                /\ log[i + 1].f = log[i].f
                /\ tasks[t].placed # "none" => log[i + 1].in
      ELSE ImportEvents(t) = <<>>

\* C7 happens: an import ran its script and placed its nodes in the shadow
\* root, between its two events.
PlacementOrderWitness ==
  \E t \in 1..MaxImports :
    /\ tasks[t].pc = "done" /\ tasks[t].placed = "shadow"
    /\ Len(tasks[t].put) > 1
    /\ Range(tasks[t].put) \subseteq Range(dom.shadow)
    /\ \E i \in 1..Len(log) : log[i].ev = "script" /\ log[i].t = t

\* C8: when the fetch of an import rejects, the import rejects with the tree,
\* the events and the context as they were and nothing put by it; the
\* context is null unless another import overlapped it.
FailedFetchLeavesIdle ==
  [][\A t \in 1..MaxImports :
       (tasks[t].pc = "content" /\ tasks'[t].pc = "failed") =>
         /\ dom' = dom /\ log' = log /\ context' = context /\ frag' = frag
         /\ tasks'[t].put = <<>> /\ ImportEvents(t) = <<>>
         /\ ~Overlapped(tasks[t]) => context' = 0]_vars

\* C8 happens: the fetch of an import that nothing overlapped has rejected.
FailedFetchWitness ==
  \E t \in 1..MaxImports :
    /\ tasks[t].pc = "failed" /\ tasks[t].src = "fetch" /\ tasks[t].k = 0
    /\ ~Overlapped(tasks[t])
    /\ context = 0 /\ DomNodes(dom) = {}

\* C9: the body of a non-2xx response is never parsed and inserted as
\* imported content, by ImportComponent, ShadowImport or InlineImport.
Non2xxNeverInserted ==
  /\ \A f \in 1..MaxImports : frag[f].status = "non2xx" => InDomOf(f) = <<>>
  /\ si.content.text.status # "non2xx"
  /\ \A t \in 1..MaxInlineTasks :
       iiTasks[t].status = "non2xx" =>
         ~(\E n \in Range(ii.parent) \cup Range(ii.comp) : n[1] = t)

\* C10: ShadowImport.attach fetches the exact path, stem.html and stem.htm in
\* that order, goes on to the next after a non-2xx status and after a network
\* error alike, makes no attempt after a success, and fails to load only
\* when all three attempts have failed.
FallbackOrder ==
  \A t \in 1..MaxShadowTasks :
    LET tried == siTasks[t].tried
    IN  /\ \A i \in 1..Len(tried) :
             tried[i].url = Attempts(siTasks[t].path)[i]
        /\ \A i \in 1..(Len(tried) - 1) : tried[i].outcome # "ok"
        /\ (siTasks[t].pc = "failed" /\ siTasks[t].error \in {"network", "load"})
             => /\ Len(tried) = Len(Attempts(siTasks[t].path))
                /\ \A i \in 1..Len(tried) : tried[i].outcome # "ok"

\* C11: when ShadowImport.attach fails because every fetch failed or because
\* the module's default export is no ContentScript, the component is then
\* not attached, has no script and has an empty shadow root.
FailedAttachLeavesIdle ==
  [][\A t \in 1..MaxShadowTasks :
       (siTasks[t].pc # "failed" /\ siTasks'[t].pc = "failed"
          /\ siTasks'[t].kind \in {"attach", "change"}
          /\ siTasks'[t].error \in {"load", "notscript"}) =>
         (~si'.attached /\ si'.script = 0 /\ si'.content = NoContent)]_vars

\* C12: an import that got its fragment goes through every script of it
\* whatever the earlier ones did: it is abandoned, or passes over a script,
\* only when a clear of the component ran while it was suspended; and when
\* it is done it has dealt with every script, recorded the node list,
\* dispatched 'insert' and 'attach' and made its placement.
ScriptFailureIsolated ==
  \A t \in 1..MaxImports :
    frag[t].status # "none" =>
      /\ Len(tasks[t].ran) <= frag[t].scripts
      /\ ~tasks[t].stale =>
           /\ tasks[t].pc # "failed"
           /\ \A k \in 1..Len(tasks[t].ran) : tasks[t].ran[k] # "skipped"
      /\ tasks[t].pc = "done" =>
           /\ Len(tasks[t].ran) = frag[t].scripts
           /\ Len(ImportEvents(t)) = 2
           /\ ImportEvents(t)[1].ev = "insert" /\ ImportEvents(t)[1].cap
           /\ ImportEvents(t)[2].ev = "attach"
           /\ tasks[t].placed = attrs.target

\* C12 happens: the first script of an import threw or rejected, the second
\* was called after it, and the import placed the fragment with what the
\* second script added.
ScriptFailureIsolatedWitness ==
  \E t \in 1..MaxImports :
    /\ tasks[t].pc = "done" /\ ~Overlapped(tasks[t]) /\ context = t
    /\ tasks[t].ran \in {<<"threw", "resolved">>, <<"rejected", "resolved">>}
    /\ \E i \in 1..Len(log) : log[i] = ScriptEvent(t, t, 2)
    /\ AppendedNode(t, t, 2) \in Range(dom.comp)
    /\ Len(ImportEvents(t)) = 2

\* C13: the scripts of one import are called in document order, and while
\* the call of one has not settled no other script of that import is begun.
ScriptsSequential ==
  \A t \in 1..MaxImports :
    LET calls == SelectSeq(log, LAMBDA e : e.ev = "script" /\ e.t = t)
        ran == tasks[t].ran
    IN  /\ \A i \in 1..(Len(calls) - 1) : calls[i].k < calls[i + 1].k
        /\ \A k \in 1..Len(ran) :
             ran[k] = "called" =>
               (k = Len(ran) /\ tasks[t].pc = "run" /\ tasks[t].k = k)
        /\ tasks[t].pc = "load" => Len(ran) = tasks[t].k - 1
        /\ tasks[t].pc = "run" => Len(ran) = tasks[t].k

\* C13 happens: both scripts of an import were called and resolved, and the
\* nodes they added to the fragment are placed in the order of the scripts.
ScriptsSequentialWitness ==
  \E t \in 1..MaxImports :
    /\ tasks[t].pc = "done" /\ ~Overlapped(tasks[t])
    /\ tasks[t].ran = <<"resolved", "resolved">>
    /\ SelectSeq(log, LAMBDA e : e.ev = "script" /\ e.t = t)
         = <<ScriptEvent(t, t, 1), ScriptEvent(t, t, 2)>>
    /\ SubSeq(tasks[t].put, Len(tasks[t].put) - 1, Len(tasks[t].put))
         = <<AppendedNode(t, t, 1), AppendedNode(t, t, 2)>>

\* C14: every script is called with the fragment of the import that found
\* it, never with null and never with the fragment of another import.
ScriptsGetOwnFragment ==
  \A i \in 1..Len(log) : log[i].ev = "script" => log[i].f = log[i].t

\* C15: with a target that is a selector matching nothing, the step that
\* completes an import dispatches 'insert' and then 'attach', both carrying
\* the fragment the component holds, whose node list is recorded and whose
\* nodes all stay in it; the tree is as it was, with no node of it in it;
\* and an import is abandoned only at a rejected fetch or after a clear
\* superseded it, never at the placement.
NullPlacement ==
  [][attrs.target = "#none" =>
       \A t \in 1..MaxImports :
         /\ (~Settled(tasks[t]) /\ tasks'[t].pc = "done") =>
              /\ context' # 0
              /\ log' = log \o <<Event("insert", context', t, TRUE, FALSE),
                                 Event("attach", context', t, TRUE, FALSE)>>
              /\ frag'[context'].kids = frag'[context'].nodes
              /\ frag'[context'].kids # <<>>
              /\ dom' = dom
              /\ Range(frag'[context'].nodes) \cap DomNodes(dom') = {}
              /\ tasks'[t].put = <<>>
              /\ ~Overlapped(tasks[t]) => context' = t
         /\ (~Settled(tasks[t]) /\ tasks'[t].pc = "failed") =>
              (tasks[t].pc = "content" \/ tasks[t].stale)]_vars

\* C15 happens: an import nothing overlapped is done with a target that
\* matches nothing; the component holds its fragment and the tree is empty.
NullPlacementWitness ==
  \E t \in 1..MaxImports :
    /\ attrs.target = "#none" /\ Connected(dom)
    /\ tasks[t].pc = "done" /\ ~Overlapped(tasks[t])
    /\ context = t /\ log[Len(log)] = Event("attach", t, t, TRUE, FALSE)
    /\ Len(frag[t].kids) > 1 /\ DomNodes(dom) = {}

\* C16: the step that completes an import puts the recorded nodes, in their
\* order, where the target of that moment says: 'insert' after the last
\* child of the component, 'shadow' after the last child of the shadow root,
\* which then exists, 'before' and 'after' next to the component among the
\* children of its parent, before it and after it; a component without a
\* parent has no siblings, and 'before' and 'after' then move nothing.
PlacedByTarget ==
  [][\A t \in 1..MaxImports :
       (~Settled(tasks[t]) /\ tasks'[t].pc = "done") =>
         LET nodes == frag'[context'].nodes
             n == Len(nodes)
             at == IndexOf(dom'.parent, Comp)
             rest == [dom EXCEPT !.open = dom'.open]
         IN  CASE attrs.target = "insert" ->
                   dom' = [rest EXCEPT !.comp = dom.comp \o nodes]
              [] attrs.target = "shadow" ->
                   /\ dom'.open
                   /\ dom' = [rest EXCEPT !.shadow = dom.shadow \o nodes]
              [] attrs.target \in {"before", "after"} /\ ~Connected(dom) ->
                   dom' = dom
              [] attrs.target = "before" /\ Connected(dom) ->
                   /\ at > n
                   /\ SubSeq(dom'.parent, at - n, at - 1) = nodes
                   /\ Without(dom'.parent, Range(nodes)) = dom.parent
                   /\ dom' = [dom EXCEPT !.parent = dom'.parent]
              [] attrs.target = "after" /\ Connected(dom) ->
                   /\ SubSeq(dom'.parent, at + 1, at + n) = nodes
                   /\ Without(dom'.parent, Range(nodes)) = dom.parent
                   /\ dom' = [dom EXCEPT !.parent = dom'.parent]
              [] OTHER -> TRUE]_vars

\* C16 happens: the target was changed to 'before', and the import then put
\* its nodes right before the component, after the sibling before it.
PlacedByTargetWitness ==
  \E t \in 1..MaxImports :
    /\ tasks[t].pc = "done" /\ ~Overlapped(tasks[t]) /\ context = t
    /\ attrs.target = "before" /\ tasks[t].placed = "before"
    /\ changes.all = 1 /\ changes.same = 0 /\ attrs.from = tasks[t].from
    /\ dom.parent = <<SibA>> \o frag[t].nodes \o <<Comp>>
    /\ Len(frag[t].nodes) > 1

\* C17: disconnectedCallback leaves the component with no context, none of
\* its nodes in the tree and no deferred callback pending.
TeardownCancelsTimer ==
  [][(Connected(dom) /\ ~Connected(dom')) =>
       (context' = 0 /\ timer' = 0)]_vars

\* C18: an attributeChangedCallback of ImportComponent or of DataTemplate
\* with the old value as the new one changes nothing: the deferred callback
\* is pending after it exactly if it was before, no event is dispatched, no
\* import or render begins or moves, and the content, the fragments and the
\* tree are as they were; a deferred callback is pending only after a
\* callback whose two values differed.
SameValueIgnored ==
  [][/\ changes'.same > changes.same =>
          /\ timer' = timer /\ attrs' = attrs
          /\ UNCHANGED <<context, frag, dom, tasks, log>>
     /\ timer' > 0 => changes'.tick > 0
     /\ dt'.calls.same > dt.calls.same =>
          /\ dt' = [dt EXCEPT !.calls = dt'.calls]
          /\ dtTasks' = dtTasks
     /\ dt'.timer > 0 => dt'.calls.all > dt'.calls.same]_vars

\* C18 happens: each of the two components holds content in the tree and
\* has had callbacks, all of them with the old value as the new one; no
\* deferred callback is pending and nothing was removed.
SameValueIgnoredWitness ==
  /\ changes.same > 0 /\ changes.same = changes.all
  /\ context # 0 /\ timer = 0 /\ InDomOf(context) # <<>>
  /\ \A i \in 1..Len(log) : log[i].ev \notin {"remove", "detach"}
  /\ dt.calls.same > 0 /\ dt.calls.same = dt.calls.all
  /\ dt.content # <<>> /\ dt.timer = 0
  /\ \A i \in 1..Len(dt.content) :
       Range(dt.ctx[dt.content[i]].nodes) \subseteq DataInDom(dt)
  /\ \A i \in 1..Len(dt.log) : dt.log[i].ev # "detach"

\* C19: when the deferred callback of an ImportComponent runs on a component
\* that holds no context, whether or not an import is suspended, it
\* dispatches no event, begins no import and so no fetch, and leaves the
\* fragments and the tree as they were.
IdleCallbackDoesNothing ==
  [][(timer' < timer /\ context = 0) =>
       /\ UNCHANGED <<context, frag, dom, tasks, log, attrs>>
       /\ timer' = 0]_vars

\* C19 happens: the deferred callback ran on a component with a from to
\* import and no context; no import was ever begun and no event dispatched.
IdleCallbackDoesNothingWitness ==
  /\ changes.served > 0 /\ timer = 0 /\ context = 0
  /\ attrs.from # "" /\ Connected(dom)
  /\ log = <<>> /\ \A t \in 1..MaxImports : tasks[t].pc = "free"
  /\ DomNodes(dom) = {}

\* C20: a call of ImportComponent.import on a component with an empty from,
\* by connectedCallback or by the deferred callback, takes the content the
\* component holds out of the tree, dispatching 'remove' and 'detach' for
\* it, and stops there: no import begins, so nothing is fetched, no
\* 'insert' or 'attach' is dispatched, no node enters the tree, and the
\* component holds no context when the call returns.
EmptyFromOnlyClears ==
  [][(/\ attrs.from = ""
      /\ \/ ~Connected(dom) /\ Connected(dom')
         \/ timer' < timer /\ context # 0) =>
       /\ context' = 0
       /\ \A t \in 1..MaxImports : tasks[t].pc = "free" => tasks'[t].pc = "free"
       /\ log' = log \o (IF context = 0 THEN <<>>
                          ELSE <<Event("remove", context, 0,
                                       frag[context].set, FALSE),
                                 Event("detach", context, 0,
                                       frag[context].set, FALSE)>>)
       /\ DomNodes(dom') \subseteq DomNodes(dom)
       /\ context # 0 => Range(frag[context].nodes) \cap DomNodes(dom') = {}]_vars

\* C20 happens: an import had placed its nodes, the from was then set to the
\* empty string, and the import of the deferred callback took the nodes out
\* and began nothing.
EmptyFromOnlyClearsWitness ==
  \E c \in 1..MaxImports :
    /\ attrs.from = "" /\ changes.served > 0 /\ timer = 0 /\ context = 0
    /\ tasks[c].pc = "done" /\ tasks[c].put # <<>>
    /\ \A t \in 1..MaxImports \ {c} : tasks[t].pc = "free"
    /\ Len(log) = 4
    /\ log[3] = Event("remove", c, 0, TRUE, FALSE)
    /\ log[4] = Event("detach", c, 0, TRUE, FALSE)
    /\ DomNodes(dom) = {} /\ Connected(dom)

\* C21: ImportComponent.clear on a component that holds no context, as
\* disconnectedCallback and the first line of import call it, dispatches no
\* event and changes no fragment, no node of the tree and no field of the
\* component; of the tree only the place of the component itself changes,
\* which is the page's doing, and connectedCallback goes on to its import.
ClearOfNothing ==
  [][(context = 0
      /\ \/ Connected(dom) /\ ~Connected(dom')
         \/ ~Connected(dom) /\ Connected(dom')) =>
       /\ log' = log /\ frag' = frag /\ timer' = timer /\ attrs' = attrs
       /\ context' = 0
       /\ Surrounding(dom') = Surrounding(dom) /\ dom'.open = dom.open
       /\ \A t \in 1..MaxImports :
            \/ tasks'[t] = [tasks[t] EXCEPT !.stale = tasks'[t].stale]
            \/ tasks[t].pc = "free" /\ Connected(dom')]_vars

\* C21 happens: disconnectedCallback ran its clear while the import of
\* connectedCallback was suspended, before any context was set; nothing was
\* dispatched and the tree holds no node of the component.
ClearOfNothingWitness ==
  /\ ~Connected(dom) /\ context = 0 /\ log = <<>> /\ DomNodes(dom) = {}
  /\ \E t \in 1..MaxImports : tasks[t].pc = "content" /\ tasks[t].stale
  /\ \A t \in 1..MaxImports : frag[t] = NoFrag

\* The clones a render makes for what it is given, in the order of the items.
ClonesOf(r) ==
  [i \in 1..Len(Items(dtTasks[r].input)) |-> ContextOf(r, i)]

\* C22: when a render completes that no other render overlapped, the content
\* of the component is the clones of that render, one per item in the order
\* of the items (one for a value that is no array, none for null), each
\* bound to its item and with its node list recorded; and every node of a
\* clone that is in the tree is a node of one of them, so nothing of an
\* earlier render is left there.
RenderOwnsItsItems ==
  [][\A r \in 1..MaxRenders :
       (dtTasks[r].pc # "done" /\ dtTasks'[r].pc = "done"
          /\ dtTasks'[r].alone) =>
         LET mine == [i \in 1..Len(Items(dtTasks'[r].input)) |-> ContextOf(r, i)]
         IN  /\ dt'.content = mine
             /\ \A i \in 1..Len(mine) :
                  /\ dt'.ctx[mine[i]].item = i
                  /\ dt'.ctx[mine[i]].bound
                  /\ dt'.ctx[mine[i]].nodes # <<>>
             /\ DataInDom(dt') \subseteq
                  UNION {Range(dt'.ctx[c].nodes) : c \in Range(mine)}]_vars

\* C22 happens: a first render placed the clone of its value, and a second
\* render of an array of two items, overlapped by none, completed: the
\* content is its two clones, both in the tree, and the first render's clone
\* is out of it.
RenderOwnsItsItemsWitness ==
  /\ dtTasks[1].pc = "done" /\ dtTasks[1].input.kind = "value"
  /\ dtTasks[2].pc = "done" /\ dtTasks[2].alone
  /\ dtTasks[2].input = [kind |-> "array", n |-> 2]
  /\ dt.content = ClonesOf(2) /\ Len(dt.content) = 2
  /\ DataConnected(dt)
  /\ \A c \in Range(ClonesOf(2)) : Range(dt.ctx[c].nodes) \subseteq DataInDom(dt)
  /\ dt.ctx[ContextOf(1, 1)].bound
  /\ Range(dt.ctx[ContextOf(1, 1)].nodes) \cap DataInDom(dt) = {}
  /\ \E i \in 1..Len(dt.log) :
       dt.log[i] = [ev |-> "attach", c |-> ContextOf(1, 1), in |-> TRUE]

\* C23: on every clone of a DataTemplate 'attach' and 'detach' alternate,
\* 'attach' first; an 'attach' is dispatched with the nodes of the clone in
\* the tree and a 'detach' with them out of it.
ContextEventsAlternate ==
  \A c \in 1..(MaxRenders * MaxItems) :
    LET ContextEvents == SelectSeq(dt.log, LAMBDA e : e.c = c)
    IN  \A i \in 1..Len(ContextEvents) :
          /\ ContextEvents[i].ev = (IF i % 2 = 1 THEN "attach" ELSE "detach")
          /\ ContextEvents[i].in = (i % 2 = 1)

\* C24: when the latest thing that happened on the page is a click on an
\* anchor of a nav-component, and every hashchange event has been
\* dispatched, each target of that component has the controlled attribute
\* equal to the href of that anchor.
ClickReachesTargets ==
  (nav.clicked.c # 0 /\ nav.pending = 0 /\ ~nav.dropped) =>
    LET comp == nav.comps[nav.clicked.c]
    IN  \A t \in 1..Len(comp.targets) :
          comp.targets[t] = comp.items[nav.clicked.i].href

\* C25: after a click in a src-nav with a hash-name, made on a page with no
\* event waiting, and the hashchange events that follow, every part of the
\* URL hash that is not the entry of that name is as it was before the
\* click, and every src-nav with another hash-name has the target
\* attribute and the active anchors it had before the click.
SrcNavsIndependent ==
  LET k == srcnav.clicked
      OtherEntries(raw, name) ==
        SelectSeq(SrcGetHash(raw).entries, LAMBDA e : e.key # name)
  IN
  (k.c # 0 /\ ~srcnav.dropped /\ k.comps[k.c].hashName # <<>>) =>
    /\ OtherEntries(srcnav.hash, k.comps[k.c].hashName)
         = OtherEntries(k.hash, k.comps[k.c].hashName)
    /\ \A y \in 1..MaxSrcNavs :
         (k.comps[y].hashName \notin {<<>>, k.comps[k.c].hashName}) =>
           /\ srcnav.comps[y].target = k.comps[y].target
           /\ srcnav.comps[y].items = k.comps[y].items

\* C26: when the latest toggle that turned the target on registered a
\* revert handler, and the latest thing that happened is an event of that
\* handler's list dispatched on the target, the target has no 'toggled'
\* attribute and the handler is registered for no event name.
RevertOnFirstEvent ==
  (/\ toggle.armed # 0
   /\ toggle.last.kind = "event"
   /\ toggle.last.name \in Range(toggle.handlers[toggle.armed])) =>
     /\ ~toggle.toggled
     /\ \A l \in Range(toggle.listeners) : l.h # toggle.armed

RevertOnFirstEventWitness ==
  /\ toggle.armed = 2
  /\ toggle.handlers[2] = <<<<"a">>, <<"b">>>>
  /\ toggle.last = [kind |-> "event", name |-> <<"b">>]
  /\ ~toggle.toggled
  /\ toggle.clicks = 3
  /\ toggle.listeners # <<>>

LatestSrcShown ==
  (/\ \A t \in 1..MaxShadowTasks :
        siTasks[t].pc \notin {"fetch", "detaching", "detached", "module",
                              "script"}
   /\ \A t \in 1..MaxShadowTasks : siTasks[t].pc # "failed"
   /\ si.connected /\ si.attached
   /\ si.content # NoContent) =>
     siTasks[si.content.by].path = PathOf(si.src)

\* C29: every node the component inserted that is in the document is listed
\* in its content, while no src change is between its detach and its attach;
\* and no such node is in the document while the component is not attached,
\* that is once detach has run and no attach has begun or is to begin.
InlineOwnsItsNodes ==
  LET InlineInDocument ==
        (Range(ii.parent)
           \cup (IF InlineConnected(ii) THEN Range(ii.comp) ELSE {}))
          \ {InlineComp, InlineSib}
  IN  (\A t \in 1..MaxInlineTasks : iiTasks[t].pc # "detached") =>
        /\ InlineInDocument \subseteq Range(ii.content)
        /\ ~ii.attached => InlineInDocument = {}

\* C30: when every call of render has run to its end, and the latest of
\* them began while an earlier one awaited a binder, the contexts the
\* component owns are the instances of the latest call, one per item of its
\* data and in their order, and no node of another instance is in the page.
LaterRenderWins ==
  \A r \in 1..MaxRenders :
    (/\ \A q \in 1..MaxRenders : dtTasks[q].pc \in {"free", "done"}
     /\ \A q \in 1..MaxRenders : q > r => dtTasks[q].pc = "free"
     /\ dtTasks[r].pc = "done"
     /\ ~dtTasks[r].alone) =>
       /\ dt.content = ClonesOf(r)
       /\ DataInDom(dt) \subseteq
            UNION {Range(dt.ctx[c].nodes) : c \in Range(ClonesOf(r))}

\* C31: when every call of render has run to its end and the latest of them,
\* overlapped by no other, was given an array, then, whether or not the
\* component was taken out of the page and put back since, the nodes of the
\* instances stand in the page in the order of the items, wherever the
\* target puts them: no node of a later item comes before a node of an
\* earlier one.
InstancesInItemOrder ==
  LET Ordered(seq) ==
        \A a \in 1..Len(seq) : \A b \in (a + 1)..Len(seq) :
          (seq[a] \notin {DataComp, DataSib} /\ seq[b] \notin {DataComp, DataSib})
            => \/ seq[a][1] < seq[b][1]
               \/ seq[a][1] = seq[b][1] /\ seq[a][2] < seq[b][2]
  IN  \A r \in 1..MaxRenders :
        (/\ \A q \in 1..MaxRenders : dtTasks[q].pc \in {"free", "done"}
         /\ \A q \in 1..MaxRenders : q > r => dtTasks[q].pc = "free"
         /\ dtTasks[r].pc = "done" /\ dtTasks[r].alone
         /\ dtTasks[r].input.kind = "array") =>
           /\ Ordered(dt.parent) /\ Ordered(dt.comp) /\ Ordered(dt.shadow)
           /\ Ordered(dt.q) /\ Ordered(dt.inside)

\* C32: on a page of nav-components that share one hash-name the chain of
\* pulls, clicks on default items and hash changes comes to an end.  The
\* dispatch of an event is determined by the hash and the components, so
\* the chain ends only if no dispatch of a waiting hashchange event leaves
\* the hash and every component as they were with as many events waiting
\* as before, or more.
NavChainTerminates ==
  nav.pending > 0 =>
    LET after == PullEach([nav EXCEPT !.pending = @ - 1], nav.listeners)
    IN  ~(/\ after.hash = nav.hash /\ after.comps = nav.comps
          /\ after.pending >= nav.pending)

\* C33: after a click in a src-nav with a hash-name, made on a page with no
\* event waiting, and the hashchange events that follow, every other
\* src-nav that has no hash-name has the target attribute and the active
\* anchors it had before the click.
UnnamedSrcNavKept ==
  LET k == srcnav.clicked
  IN  (k.c # 0 /\ ~srcnav.dropped /\ k.comps[k.c].hashName # <<>>) =>
        \A y \in 1..MaxSrcNavs :
          (y # k.c /\ k.comps[y].hashName = <<>>) =>
            /\ srcnav.comps[y].target = k.comps[y].target
            /\ srcnav.comps[y].items = k.comps[y].items

\* C34: while the target of a ToggleButton is not toggled, whether a click
\* or a revert event turned it off, no revert handler of the button is
\* registered on the target, so that clicks on and off leave no listener
\* behind.
NoListenerWhenOff == ~toggle.toggled => toggle.listeners = <<>>

====
